---- MODULE Spec2Model ----
(***************************************************************************)
(* StageForge: the renderer process supervisor (LibreOfficeController),    *)
(* the two mode controllers (RendererMode, SceneMode) and the coordinator  *)
(* (the ipcMain handlers of main.js), modelled as state machines whose     *)
(* steps are the synchronous runs between two suspension points of the     *)
(* event loop (a timer, an I/O completion, a process event, an IPC call).  *)
(***************************************************************************)
EXTENDS Integers, Sequences, FiniteSets, TLC

(* ---------------------------- bounds ---------------------------------- *)
\* number of launch() calls explored; launch l spawns process l
MaxLaunches == 2
\* stop() calls and forced-kill timers that may be pending at one time
MaxStops == 1

\* ipcMain handlers that may be suspended at one time
MaxInflight == 2
\* slideCount of the renderer-mode program in the store
MaxSlides == 2
\* cap on RendererMode.currentSlideIndex, which next() raises without limit
MaxSlideIndex == 2
\* launch() calls made by RendererMode.start that are explored
MaxStarts == 1
\* largest index _jumpToScene is called with (the programs have two acts)
MaxJumpIndex == 2

(* ------------------------ program constants --------------------------- *)
\* this.process === null
NullProcess == 0
\* exit code reported for a process ended by a signal (Node reports null)
NullCode == -1

Pids == 1..MaxLaunches
ExitCodes == {0}

VARIABLES
  proc,         \* proc[p]: the operating-system side of spawned process p
  exitCode,     \* exitCode[p]: the code a pending 'exit' event carries
  process,      \* LibreOfficeController.process (NullProcess or a pid)
  isRunning,    \* LibreOfficeController.isRunning
  currentFile,  \* LibreOfficeController.currentFile
  launchState,  \* launchState[l]: where the l-th launch() call is
  startTimers,  \* launches whose startup setTimeout is pending
  killTimers,   \* number of pending forced-kill setTimeouts
  stopDelays,   \* number of direct stop() calls waiting in _delay
  stopTargets,  \* processes that were tracked when a stop() went past its guard
  erroredSince, \* a process 'error' arrived and no launch() was called since
  racedStop,    \* a stop() was called during a startup delay, no launch() since
  displayIndex, \* LibreOfficeController.displayIndex
  main,         \* main.js: currentMode and currentProgram
  rendererMode, \* the RendererMode instance
  sceneMode,    \* the SceneMode instance
  obsController,\* the OBSController instance and its websocket
  remote,       \* the remote production service: the scenes it holds
  calls,        \* calls[s]: the ipcMain handler running in slot s, its reply, or Idle
  last          \* the supervisor step just taken: name, process, emitted event

supVars == <<proc, exitCode, process, isRunning, currentFile, launchState,
             startTimers, killTimers, stopDelays, stopTargets, erroredSince,
             racedStop>>
\* the supervisor's fields, its pending callbacks and the processes
loVars == <<proc, exitCode, process, isRunning, currentFile, launchState,
            startTimers, killTimers, stopDelays>>
coordVars == <<displayIndex, main, rendererMode, sceneMode, obsController, remote,
              calls>>
vars == <<supVars, coordVars, last>>

Step(op, pid, ev, arg) == [op |-> op, pid |-> pid, ev |-> ev, arg |-> arg]

(* --------------------- LibreOfficeController -------------------------- *)

\* constructor
SupInit ==
  /\ proc = [p \in Pids |-> "unborn"]
  /\ exitCode = [p \in Pids |-> NullCode]
  /\ process = NullProcess
  /\ isRunning = FALSE
  /\ currentFile = "null"
  /\ launchState = [l \in Pids |-> "unused"]
  /\ startTimers = {}
  /\ killTimers = 0
  /\ stopDelays = 0
  /\ stopTargets = {}
  /\ erroredSince = FALSE
  /\ racedStop = FALSE

Alive == {p \in Pids : proc[p] = "alive"}

\* child.kill(signal): SIGKILL ends a live process, SIGTERM may be ignored;
\* on a process that has ended it does nothing
KillProc(pr, p, sig) ==
  IF pr[p] = "alive" /\ sig = "SIGKILL" THEN [pr EXCEPT ![p] = "exiting"] ELSE pr

\* sendKey: throws unless isRunning and a process is tracked
SendKeyThrows == ~isRunning \/ process = NullProcess

\* the guard of the catch block of stop(): if (this.process)
CatchGuardUnguarded == TRUE
CatchGuard == process # NullProcess

\* the guard before SIGTERM in stop(): if (this.process)
TermGuard == process # NullProcess

\* the guard inside the forced-kill timer: if (this.process)
KillTimerGuardNever == FALSE
KillTimerGuard == process # NullProcess

\* stop() up to its first suspension, called with isRunning true:
\* "delay" when the exit key went out and stop waits in _delay,
\* "returned" when sendKey threw and the catch block ran,
\* "threw" when the catch block itself raised (kill on a null handle)
StopOutcome ==
  IF ~SendKeyThrows THEN "delay"
  ELSE IF CatchGuard /\ process = NullProcess THEN "threw"
  ELSE "returned"

\* the synchronous head of stop() on the supervisor's fields
StopHead(out) ==
  /\ stopTargets' = IF out = "delay" THEN stopTargets \cup {process} ELSE stopTargets
  /\ proc' = IF out = "returned" /\ CatchGuard
               THEN KillProc(proc, process, "SIGKILL") ELSE proc
  /\ isRunning' = IF out = "returned" THEN FALSE ELSE isRunning
  /\ currentFile' = IF out = "returned" THEN "null" ELSE currentFile

\* stop() after _delay: SIGTERM, arm the forced-kill timer, clear the flags
StopTail ==
  /\ killTimers' = IF TermGuard THEN killTimers + 1 ELSE killTimers
  /\ isRunning' = FALSE
  /\ currentFile' = "null"

\* how far the startup timer goes: it sets isRunning unconditionally
TimerSetsRunningIfAlive(l) == proc[l] = "alive"
TimerSetsRunning(l) == TRUE

StopsPending ==
  stopDelays + killTimers + Cardinality({l \in Pids : launchState[l] = "inStop"})

\* a launch() that has not settled: waiting for checkAvailability or its timer
StartupPending == \E l \in Pids : launchState[l] \in {"avail", "pending"}

\* launch(filePath): up to the first suspension
Launch(l) ==
  /\ launchState[l] = "unused"
  /\ \A k \in Pids : k < l => launchState[k] # "unused"
  /\ erroredSince' = FALSE
  /\ racedStop' = FALSE
  /\ IF isRunning
       THEN /\ StopsPending < MaxStops
            /\ StopHead(StopOutcome)
            /\ launchState' = [launchState EXCEPT ![l] =
                 CASE StopOutcome = "delay" -> "inStop"
                   [] StopOutcome = "threw" -> "rejected"
                   [] OTHER -> "avail"]
            /\ last' = Step("launch", l, StopOutcome, 0)
       ELSE /\ launchState' = [launchState EXCEPT ![l] = "avail"]
            /\ last' = Step("launch", l, "noStop", 0)
            /\ UNCHANGED <<stopTargets, proc, isRunning, currentFile>>
  /\ UNCHANGED <<exitCode, process, startTimers, killTimers, stopDelays>>

\* the stop() inside launch() comes back from _delay
LaunchStopDelay(l) ==
  /\ launchState[l] = "inStop"
  /\ StopTail
  /\ launchState' = [launchState EXCEPT ![l] = "avail"]
  /\ last' = Step("launchStopDelay", l, "returned", 0)
  /\ UNCHANGED <<proc, exitCode, process, startTimers, stopDelays, stopTargets,
                 erroredSince, racedStop>>

\* checkAvailability() answers; launch() throws or spawns and arms the timer
LaunchAvail(l, available, spawned) ==
  /\ launchState[l] = "avail"
  /\ IF ~available
       THEN /\ launchState' = [launchState EXCEPT ![l] = "rejected"]
            /\ last' = Step("launchUnavailable", l, "none", 0)
            /\ UNCHANGED <<proc, process, currentFile, startTimers>>
       ELSE /\ currentFile' = "deck"
            /\ proc' = [proc EXCEPT ![l] = IF spawned THEN "alive" ELSE "spawnfail"]
            /\ process' = l
            /\ startTimers' = startTimers \cup {l}
            /\ launchState' = [launchState EXCEPT ![l] = "pending"]
            /\ last' = Step("spawn", l, "none", 0)
  /\ UNCHANGED <<exitCode, isRunning, killTimers, stopDelays, stopTargets,
                 erroredSince, racedStop>>

\* the startup setTimeout callback of launch l; the 'error' of a failed
\* spawn is queued on the next tick and so comes before this timer
StartupTimer(l) ==
  /\ l \in startTimers
  /\ proc[l] # "spawnfail"
  /\ startTimers' = startTimers \ {l}
  /\ isRunning' = IF TimerSetsRunning(l) THEN TRUE ELSE isRunning
  /\ launchState' = [launchState EXCEPT ![l] =
       IF @ = "pending" /\ TimerSetsRunning(l) THEN "resolved"
       ELSE IF @ = "pending" THEN "rejected" ELSE @]
  /\ last' = Step("startupTimer", l,
       IF TimerSetsRunning(l) THEN "started" ELSE "none", 0)
  /\ UNCHANGED <<proc, exitCode, process, currentFile, killTimers,
                 stopDelays, stopTargets, erroredSince, racedStop>>

\* what the 'error' handler does to isRunning
ErrorKeepsRunning == isRunning
ErrorSetsRunning == FALSE

\* this.emit('error', error): an EventEmitter with no listener for 'error'
\* throws the error out of emit, and nothing in the program registers one on
\* the supervisor (main.js listens to 'started', 'stopped', 'slide-changed')
EmitErrorThrows == TRUE

\* process.on('error'): the spawn failed; reject(error) comes after the emit
ProcError(l) ==
  /\ proc[l] = "spawnfail"
  /\ proc' = [proc EXCEPT ![l] = "errored"]
  /\ isRunning' = ErrorSetsRunning
  /\ launchState' = [launchState EXCEPT ![l] =
       IF @ = "pending" /\ ~EmitErrorThrows THEN "rejected" ELSE @]
  /\ erroredSince' = TRUE
  /\ last' = Step("error", l, IF EmitErrorThrows THEN "uncaught" ELSE "error", 0)
  /\ UNCHANGED <<exitCode, process, currentFile, startTimers, killTimers,
                 stopDelays, stopTargets, racedStop>>

\* the external process ends by itself (or honours SIGTERM)
ProcDies(p, code) ==
  /\ proc[p] = "alive"
  /\ proc' = [proc EXCEPT ![p] = "exiting"]
  /\ exitCode' = [exitCode EXCEPT ![p] = code]
  /\ last' = Step("dies", p, "none", 0)
  /\ UNCHANGED <<process, isRunning, currentFile, launchState, startTimers,
                 killTimers, stopDelays, stopTargets, erroredSince, racedStop>>

\* what the 'exit' handler of process p does to the tracked handle
ExitClearsOwn(p) == IF process = p THEN NullProcess ELSE process
ExitClears(p) == NullProcess

\* what the 'exit' handler does to isRunning
ExitKeepsRunning == isRunning
ExitSetsRunning == FALSE

\* process.on('exit')
ProcExit(p) ==
  /\ proc[p] = "exiting"
  /\ proc' = [proc EXCEPT ![p] = "exited"]
  /\ exitCode' = [exitCode EXCEPT ![p] = NullCode]
  /\ isRunning' = ExitSetsRunning
  /\ process' = ExitClears(p)
  /\ last' = Step("exit", p, "stopped", exitCode[p])
  /\ UNCHANGED <<currentFile, launchState, startTimers, killTimers,
                 stopDelays, stopTargets, erroredSince, racedStop>>

\* stop() called directly: no-op, catch path, or into _delay
Stop ==
  /\ IF ~isRunning
       THEN /\ last' = Step("stop", process, "noop", 0)
            /\ UNCHANGED <<stopTargets, proc, isRunning, currentFile, stopDelays>>
       ELSE /\ StopsPending < MaxStops
            /\ StopHead(StopOutcome)
            /\ stopDelays' = IF StopOutcome = "delay" THEN stopDelays + 1 ELSE stopDelays
            /\ last' = Step("stop", process, StopOutcome, 0)
  /\ racedStop' = (racedStop \/ StartupPending)
  /\ UNCHANGED <<exitCode, process, launchState, startTimers, killTimers, erroredSince>>

\* a direct stop() comes back from _delay and returns
StopDelay ==
  /\ stopDelays > 0
  /\ stopDelays' = stopDelays - 1
  /\ StopTail
  /\ last' = Step("stopDelay", process, "returned", 0)
  /\ UNCHANGED <<proc, exitCode, process, launchState, startTimers, stopTargets,
                 erroredSince, racedStop>>

\* the forced-kill setTimeout callback of some earlier stop()
KillTimer ==
  /\ killTimers > 0
  /\ killTimers' = killTimers - 1
  /\ proc' = IF KillTimerGuard THEN KillProc(proc, process, "SIGKILL") ELSE proc
  /\ exitCode' = exitCode
  /\ last' = Step("killTimer", process, "none", 0)
  /\ UNCHANGED <<process, isRunning, currentFile, launchState, startTimers,
                 stopDelays, stopTargets, erroredSince, racedStop>>


(* ------------------------- programs and names ------------------------- *)

\* the program store read by PPTProcessor.loadProgram: one renderer-mode
\* program, a scene-mode program of two image acts and a scene-mode program
\* whose first act also has a video
ProgramIds == {"R", "S", "V"}
NoProgram == ""
Act(image, video) == [imagePath |-> image, hasVideo |-> video]
Programs ==
  [id \in ProgramIds |->
     CASE id = "R" -> [mode |-> "renderer", slideCount |-> MaxSlides, acts |-> <<>>]
       [] id = "S" -> [mode |-> "scene", slideCount |-> 2,
                       acts |-> <<Act(TRUE, FALSE), Act(TRUE, FALSE)>>]
       [] OTHER -> [mode |-> "scene", slideCount |-> 2,
                    acts |-> <<Act(TRUE, TRUE), Act(TRUE, FALSE)>>]]

\* names of remote scenes: prefix, program id, infix, 1-based number
Name(kind, prog, n) == [kind |-> kind, prog |-> prog, n |-> n]
NoName == Name("none", NoProgram, 0)
\* `${SCENE_PREFIX}${program.id}${ACT_PREFIX}${i + 1}` for the 0-based act i
ActSceneNameZeroBased(prog, i) == Name("SF_Act", prog, i)
ActSceneName(prog, i) == Name("SF_Act", prog, i + 1)
\* `${parentSceneName}_Video${subsceneIndex + 1}`, subsceneIndex is always 0
VideoSubsceneName(parent) == Name("SF_Act_Video1", parent.prog, parent.n)
\* `${SCENE_PREFIX}${program.id}${RENDERER_SUFFIX}`
RendererSceneName(prog) == Name("SF_Renderer", prog, 0)
\* CONSTANTS.BLACKOUT_SCENE
BlackoutSceneName == Name("StageForge_Blackout", NoProgram, 0)

Min(a, b) == IF a <= b THEN a ELSE b
Max(a, b) == IF a >= b THEN a ELSE b

(* ------------------------ the remote service -------------------------- *)

\* one request of obs.call, answered by the service: ok is FALSE when the
\* request fails for a reason outside the model (timeout, transport)
RemoteOk(req, name, ok) ==
  /\ ok
  /\ obsController.socket
  /\ CASE req = "RemoveScene" -> name \in remote.scenes
       [] req = "CreateScene" -> name \notin remote.scenes
       [] OTHER -> name \in remote.scenes

RemoteAfter(req, name, ok) ==
  IF ~RemoteOk(req, name, ok) THEN remote
  ELSE CASE req = "RemoveScene" ->
              [remote EXCEPT !.scenes = @ \ {name}]
         [] req = "CreateScene" -> [remote EXCEPT !.scenes = @ \cup {name}]
         [] OTHER -> remote

(* --------------------------- ipcMain slots ---------------------------- *)

Slots == 1..MaxInflight

\* a handler suspended at an await (the command, the await it is at, the mode
\* controller it runs against, the locals it will read when it resumes), or
\* the envelope it has returned and that is on its way to the window
\* what getStatus() returns; NoStatus when the handler returns none (a field
\* one controller's status lacks holds the value it has in NoStatus)
NoStatus == [mode |-> "none", programLoaded |-> FALSE, running |-> FALSE,
             current |-> -1, total |-> 0, scenes |-> <<>>]

Call(cmd, pc, ctrl, prog, idx, name) ==
  [cmd |-> cmd, pc |-> pc, ctrl |-> ctrl, prog |-> prog, idx |-> idx, name |-> name,
   lnch |-> NullProcess, success |-> "none", error |-> "", emits |-> <<>>,
   key |-> "", status |-> NoStatus]
Idle == Call("idle", "", "none", NoProgram, 0, NoName)

\* catch (error) { return { success: false, error: error.message } }
ErrorMessage(message) == message

\* the handler of slot s suspends at an await
Await(s, c) == calls' = [calls EXCEPT ![s] = c]

\* an event a SceneMode emits: this.emit(name, index) or this.emit(name, scenes)
Event(name, index, scenes) == [name |-> name, index |-> index, scenes |-> scenes]

\* the envelope the handler of slot s returns: { success: true, ... } when
\* nothing was thrown, { success: false, error } when message was thrown
Envelope(s, cmd, ctrl, message) ==
  [Call(cmd, "replied", ctrl, NoProgram, 0, NoName) EXCEPT
     !.lnch = calls[s].lnch,
     !.success = IF message = "" THEN "true" ELSE "false",
     !.error = IF message = "" THEN "" ELSE ErrorMessage(message)]

\* the handler of slot s returns its envelope
Reply(s, cmd, ctrl, message) ==
  calls' = [calls EXCEPT ![s] = Envelope(s, cmd, ctrl, message)]

\* the handler of slot s returns its envelope after its mode controller has
\* emitted the events es
ReplyEmitting(s, cmd, ctrl, es) ==
  calls' = [calls EXCEPT ![s] = [Envelope(s, cmd, ctrl, "") EXCEPT !.emits = es]]

\* the events of the supervisor's nextSlide / prevSlide / firstSlide /
\* lastSlide: 'key-sent' from sendKey, then its own 'slide-changed'
SlideKeyEvents == <<Event("lo:key-sent", -1, <<>>), Event("lo:slide-changed", -1, <<>>)>>

\* the handler of slot s returns its envelope after key went to the renderer
\* and the events es were emitted
ReplyKeySent(s, cmd, ctrl, key, es) ==
  calls' = [calls EXCEPT ![s] =
              [Envelope(s, cmd, ctrl, "") EXCEPT !.emits = es, !.key = key]]

CoordInit ==
  /\ displayIndex = 0
  /\ main = [currentMode |-> "null", currentProgram |-> NoProgram]
  /\ rendererMode = [currentProgram |-> NoProgram, currentSlideIndex |-> 0,
                     sceneFactory |-> FALSE]
  /\ sceneMode = [currentProgram |-> NoProgram, currentSceneIndex |-> -1,
                  scenes |-> <<>>, sceneFactory |-> FALSE]
  /\ obsController = [connected |-> FALSE, socket |-> FALSE, currentSceneIndex |-> -1]
  /\ remote = [scenes |-> {}]
  /\ calls = [s \in Slots |-> Idle]

(* ----------------------------- SceneMode ------------------------------ *)

\* Math.min(this.currentSceneIndex + 1, this.scenes.length - 1)
NextIndexWrapping ==
  (sceneMode.currentSceneIndex + 1) % Len(sceneMode.scenes)
NextIndex == Min(sceneMode.currentSceneIndex + 1, Len(sceneMode.scenes) - 1)

\* Math.max(this.currentSceneIndex - 1, 0)
PrevIndex == Max(sceneMode.currentSceneIndex - 1, 0)

\* _validateScenesLoaded
ScenesLoadedError == IF Len(sceneMode.scenes) = 0 THEN "No scenes loaded" ELSE ""

\* the checks of _jumpToScene before it awaits switchToScene
JumpErrorIgnoringSession(sceneIndex) ==
  IF sceneIndex < 0 \/ sceneIndex >= Len(sceneMode.scenes) THEN "Invalid scene index"
  ELSE ""
JumpError(sceneIndex) ==
  IF ~obsController.connected THEN "Not connected to OBS"
  ELSE IF sceneIndex < 0 \/ sceneIndex >= Len(sceneMode.scenes) THEN "Invalid scene index"
  ELSE ""

\* SceneMode.next / prev / start up to the await in _jumpToScene, for the
\* handler cmd in slot s: throws, does nothing, or awaits the switch
SceneJump(s, cmd, sceneIndex) ==
  IF JumpError(sceneIndex) # ""
    THEN Await(s, [Envelope(s, cmd, "scene", JumpError(sceneIndex)) EXCEPT
                     !.idx = sceneIndex])
    ELSE Await(s, Call(cmd, "switch", "scene", NoProgram, sceneIndex,
                       sceneMode.scenes[sceneIndex + 1].name))

\* SceneMode.next
SceneModeNext(s) ==
  /\ IF ScenesLoadedError # ""
       THEN Reply(s, "scene:next", "scene", ScenesLoadedError)
       ELSE SceneJump(s, "scene:next", NextIndex)
  /\ UNCHANGED <<sceneMode, rendererMode>>

\* SceneMode.prev
SceneModePrev(s) ==
  /\ IF ScenesLoadedError # ""
       THEN Reply(s, "scene:prev", "scene", ScenesLoadedError)
       ELSE SceneJump(s, "scene:prev", PrevIndex)
  /\ UNCHANGED <<sceneMode, rendererMode>>

\* SceneMode.start
SceneModeStart(s) ==
  /\ IF Len(sceneMode.scenes) > 0
       THEN SceneJump(s, "scene:start", 0)
       ELSE Reply(s, "scene:start", "scene", "")
  /\ UNCHANGED <<sceneMode, rendererMode>>

\* SceneMode.first
SceneModeFirst(s) ==
  /\ SceneJump(s, "first", 0)
  /\ UNCHANGED <<sceneMode, rendererMode>>

\* SceneMode.last: nothing with an empty list
SceneModeLast(s) ==
  /\ IF Len(sceneMode.scenes) > 0
       THEN SceneJump(s, "last", Len(sceneMode.scenes) - 1)
       ELSE Reply(s, "last", "scene", "")
  /\ UNCHANGED <<sceneMode, rendererMode>>

\* SceneMode.stop
SceneModeStopClearing(s) ==
  /\ sceneMode' = [sceneMode EXCEPT !.currentSceneIndex = -1, !.scenes = <<>>]
  /\ ReplyEmitting(s, "scene:stop", "scene", <<Event("stopped", -1, <<>>)>>)
  /\ UNCHANGED rendererMode
SceneModeStop(s) ==
  /\ sceneMode' = [sceneMode EXCEPT !.currentSceneIndex = -1]
  /\ ReplyEmitting(s, "scene:stop", "scene", <<Event("stopped", -1, <<>>)>>)
  /\ UNCHANGED rendererMode

\* SceneMode.getStatus
SceneGetStatus ==
  [mode |-> "scene",
   programLoaded |-> sceneMode.currentProgram # NoProgram,
   running |-> FALSE,
   current |-> sceneMode.currentSceneIndex,
   total |-> Len(sceneMode.scenes),
   scenes |-> sceneMode.scenes]

\* what _jumpToScene(sceneIndex) emits once the switch is done, and start()
\* after it
JumpEmitsTwice(cmd, sceneIndex) ==
  <<Event("scene-changed", sceneIndex, <<>>), Event("scene-changed", sceneIndex, <<>>)>>
JumpEmits(cmd, sceneIndex) ==
  <<Event("scene-changed", sceneIndex, <<>>)>>
    \o (IF cmd = "scene:start" THEN <<Event("started", -1, <<>>)>> ELSE <<>>)

\* _jumpToScene after switchToScene: the position moves only on success
SwitchDone(s, ok) ==
  /\ calls[s].pc = "switch"
  /\ remote' = RemoteAfter("SetCurrentProgramScene", calls[s].name, ok)
  /\ IF RemoteOk("SetCurrentProgramScene", calls[s].name, ok)
       THEN /\ sceneMode' = [sceneMode EXCEPT !.currentSceneIndex = calls[s].idx]
            /\ ReplyEmitting(s, calls[s].cmd, "scene",
                             JumpEmits(calls[s].cmd, calls[s].idx))
       ELSE /\ UNCHANGED sceneMode
            /\ Reply(s, calls[s].cmd, "scene", "obs request failed")
  /\ UNCHANGED <<supVars, last, displayIndex, main, rendererMode, obsController>>

\* the remote request a scene-mode loadProgram waits for at each await of
\* _createScenes, and the scene it names
LoadRequestNoRemoval(pc) ==
  CASE pc \in {"remove", "vremove"} -> "GetSceneItemList"
    [] pc \in {"create", "vcreate"} -> "CreateScene"
    [] pc \in {"input", "vinput"} -> "CreateInput"
    [] pc \in {"list", "vlist"} -> "GetSceneItemList"
    [] OTHER -> "SetSceneItemTransform"
LoadRequest(pc) ==
  CASE pc \in {"remove", "vremove"} -> "RemoveScene"
    [] pc \in {"create", "vcreate"} -> "CreateScene"
    [] pc \in {"input", "vinput"} -> "CreateInput"
    [] pc \in {"list", "vlist"} -> "GetSceneItemList"
    [] OTHER -> "SetSceneItemTransform"

LoadTarget(pc, sceneName) ==
  IF pc \in {"vremove", "vcreate", "vinput", "vlist", "vtransform"}
    THEN VideoSubsceneName(sceneName) ELSE sceneName

\* where _createScenes goes once the image source of an act is done
AfterImage(act) == IF act.hasVideo THEN "vremove" ELSE "push"

\* where _createScenes goes when the request awaited at pc has come back:
\* the next await, "push" (the act is complete) or "throw"
LoadGoto(pc, act, ok) ==
  CASE pc = "remove" -> "create"
    [] pc = "create" -> IF ~ok THEN "throw"
                        ELSE IF act.imagePath THEN "input" ELSE AfterImage(act)
    [] pc = "input" -> IF ok THEN "list" ELSE "throw"
    [] pc = "list" -> IF ok THEN "transform" ELSE "throw"
    [] pc = "transform" -> IF ok THEN AfterImage(act) ELSE "throw"
    [] pc = "vremove" -> "vcreate"
    [] pc = "vcreate" -> IF ok THEN "vinput" ELSE "throw"
    [] pc = "vinput" -> IF ok THEN "vlist" ELSE "push"
    [] pc = "vlist" -> IF ok THEN "vtransform" ELSE "push"
    [] OTHER -> "push"

ScenePcs == {"remove", "create", "input", "list", "transform",
             "vremove", "vcreate", "vinput", "vlist", "vtransform"}

\* the record _createScenes pushes for the act at index i
SceneDataNamingVideo(prog, i) ==
  [name |-> IF Programs[prog].acts[i + 1].hasVideo
              THEN VideoSubsceneName(ActSceneName(prog, i)) ELSE ActSceneName(prog, i),
   actIndex |-> i,
   videoSubscene |-> IF Programs[prog].acts[i + 1].hasVideo
                       THEN VideoSubsceneName(ActSceneName(prog, i)) ELSE NoName]
SceneData(prog, i) ==
  [name |-> ActSceneName(prog, i), actIndex |-> i,
   videoSubscene |-> IF Programs[prog].acts[i + 1].hasVideo
                       THEN VideoSubsceneName(ActSceneName(prog, i)) ELSE NoName]

\* SceneMode.loadProgram up to the first await
SceneModeLoad(s, prog) ==
  /\ sceneMode' = [currentProgram |-> prog, currentSceneIndex |-> -1,
                   scenes |-> <<>>,
                   sceneFactory |-> (sceneMode.sceneFactory \/ obsController.connected)]
  /\ IF ~obsController.connected \/ Len(Programs[prog].acts) = 0
       THEN ReplyEmitting(s, "program:load", "scene",
                          (IF obsController.connected
                             THEN <<Event("scenes-created", -1, <<>>)>> ELSE <<>>)
                            \o <<Event("program-loaded", -1, <<>>)>>)
       ELSE Await(s, Call("program:load", "remove", "scene", prog, 0, NoName))

\* SceneMode._createScenes: one request of the loop has come back
CreateScenesStep(s, ok) ==
  LET c == calls[s]
      i == c.idx
      acts == Programs[c.prog].acts
      target == LoadTarget(c.pc, ActSceneName(c.prog, i))
      res == RemoteOk(LoadRequest(c.pc), target, ok)
      goto == LoadGoto(c.pc, acts[i + 1], res)
  IN /\ c.cmd = "program:load" /\ c.pc \in ScenePcs
     /\ remote' = RemoteAfter(LoadRequest(c.pc), target, ok)
     /\ sceneMode' = IF goto = "push"
                       THEN [sceneMode EXCEPT !.scenes = Append(@, SceneData(c.prog, i))]
                       ELSE sceneMode
     /\ CASE goto = "throw" -> Reply(s, c.cmd, "scene", "obs request failed")
          [] goto = "push" /\ i + 1 < Len(acts) ->
               Await(s, Call(c.cmd, "remove", "scene", c.prog, i + 1, NoName))
          [] goto = "push" /\ i + 1 >= Len(acts) ->
               ReplyEmitting(s, c.cmd, "scene",
                             <<Event("scenes-created", -1, sceneMode'.scenes),
                               Event("program-loaded", -1, <<>>)>>)
          [] OTHER -> Await(s, [c EXCEPT !.pc = goto])
     /\ UNCHANGED <<supVars, last, displayIndex, main, rendererMode, obsController>>

(* ---------------------------- RendererMode ---------------------------- *)

\* RendererMode.loadProgram up to its first await
RendererModeLoad(s, prog) ==
  /\ rendererMode' = [currentProgram |-> prog, currentSlideIndex |-> 0,
                      sceneFactory |-> (rendererMode.sceneFactory \/ obsController.connected)]
  /\ IF obsController.connected
       THEN Await(s, Call("program:load", "cremove", "renderer", prog, 0,
                          RendererSceneName(prog)))
       ELSE ReplyEmitting(s, "program:load", "renderer",
                          <<Event("program-loaded", -1, <<>>)>>)

\* RendererMode._setupOBSCapture: createScene, then addWindowCapture
SetupOBSCaptureStep(s, ok) ==
  LET c == calls[s]
      req == CASE c.pc = "cremove" -> "RemoveScene"
               [] c.pc = "ccreate" -> "CreateScene"
               [] OTHER -> "CreateInput"
      res == RemoteOk(req, c.name, ok)
  IN /\ c.cmd = "program:load" /\ c.pc \in {"cremove", "ccreate", "cinput"}
     /\ remote' = RemoteAfter(req, c.name, ok)
     /\ CASE c.pc = "cremove" -> Await(s, [c EXCEPT !.pc = "ccreate"])
          [] c.pc = "ccreate" /\ res -> Await(s, [c EXCEPT !.pc = "cinput"])
          [] c.pc = "cinput" /\ res ->
               ReplyEmitting(s, c.cmd, "renderer",
                             <<Event("obs-capture-ready", -1, <<>>),
                               Event("program-loaded", -1, <<>>)>>)
          [] OTHER -> Reply(s, c.cmd, "renderer", "obs request failed")
     /\ UNCHANGED <<supVars, last, displayIndex, main, rendererMode, sceneMode,
                    obsController>>

\* await this.lo.<key>Slide(); then the new position and
\* this.emit('slide-changed', this.currentSlideIndex), for the handler cmd
SlideToPositionFirst(s, cmd, key, slideIndex) ==
  /\ rendererMode' = [rendererMode EXCEPT !.currentSlideIndex = slideIndex]
  /\ IF SendKeyThrows
       THEN Reply(s, cmd, "renderer", "LibreOffice is not running")
       ELSE ReplyKeySent(s, cmd, "renderer", key,
                         SlideKeyEvents \o <<Event("slide-changed", slideIndex, <<>>)>>)
SlideTo(s, cmd, key, slideIndex) ==
  IF SendKeyThrows
    THEN /\ Reply(s, cmd, "renderer", "LibreOffice is not running")
         /\ UNCHANGED rendererMode
    ELSE /\ rendererMode' = [rendererMode EXCEPT !.currentSlideIndex = slideIndex]
         /\ ReplyKeySent(s, cmd, "renderer", key,
                         SlideKeyEvents \o <<Event("slide-changed", slideIndex, <<>>)>>)

\* RendererMode.next: the key first, then the position
RendererModeNext(s) ==
  /\ SendKeyThrows \/ rendererMode.currentSlideIndex < MaxSlideIndex
  /\ SlideTo(s, "scene:next", "next", rendererMode.currentSlideIndex + 1)
  /\ UNCHANGED sceneMode

\* RendererMode.prev: nothing at position 0
RendererModePrevAlways == TRUE
RendererModePrevGuard == rendererMode.currentSlideIndex > 0

RendererModePrev(s) ==
  /\ IF RendererModePrevGuard
       THEN SlideTo(s, "scene:prev", "prev", rendererMode.currentSlideIndex - 1)
       ELSE /\ Reply(s, "scene:prev", "renderer", "")
            /\ UNCHANGED rendererMode
  /\ UNCHANGED sceneMode

\* RendererMode.first
RendererModeFirst(s) ==
  /\ SlideTo(s, "first", "first", 0)
  /\ UNCHANGED sceneMode

\* RendererMode.last: the position moves only if a program is loaded
RendererModeLast(s) ==
  /\ IF rendererMode.currentProgram # NoProgram
       THEN SlideTo(s, "last", "last",
                    Programs[rendererMode.currentProgram].slideCount - 1)
       ELSE /\ UNCHANGED rendererMode
            /\ IF SendKeyThrows
                 THEN Reply(s, "last", "renderer", "LibreOffice is not running")
                 ELSE ReplyKeySent(s, "last", "renderer", "last", SlideKeyEvents)
  /\ UNCHANGED sceneMode

\* RendererMode.getStatus
RendererGetStatusFromHandle ==
  [mode |-> "renderer",
   programLoaded |-> rendererMode.currentProgram # NoProgram,
   running |-> process # NullProcess,
   current |-> rendererMode.currentSlideIndex,
   total |-> IF rendererMode.currentProgram # NoProgram
               THEN Programs[rendererMode.currentProgram].slideCount ELSE 0,
   scenes |-> <<>>]
RendererGetStatus ==
  [mode |-> "renderer",
   programLoaded |-> rendererMode.currentProgram # NoProgram,
   running |-> isRunning,
   current |-> rendererMode.currentSlideIndex,
   total |-> IF rendererMode.currentProgram # NoProgram
               THEN Programs[rendererMode.currentProgram].slideCount ELSE 0,
   scenes |-> <<>>]

\* the launch() call that would be made next
NextLaunch == CHOOSE l \in Pids :
  launchState[l] = "unused" /\ \A k \in Pids : k < l => launchState[k] # "unused"

\* RendererMode.start up to its first await: lo.launch()
RendererModeStart(s, display) ==
  IF rendererMode.currentProgram = NoProgram
    THEN /\ Reply(s, "scene:start", "renderer", "No program loaded")
         /\ UNCHANGED <<supVars, last>>
    ELSE /\ \E l \in 1..MaxStarts : launchState[l] = "unused"
         /\ Launch(NextLaunch)
         /\ IF isRunning /\ StopOutcome = "threw"
              THEN Reply(s, "scene:start", "renderer", "kill of null")
              ELSE Await(s, [Call("scene:start", "launch", "renderer",
                                  rendererMode.currentProgram, display, NoName)
                             EXCEPT !.lnch = NextLaunch])

\* RendererMode.start once launch() has resolved: switch, swallowing a failure
RendererModeStarted(s) ==
  IF obsController.connected /\ rendererMode.sceneFactory
    THEN Await(s, [Call("scene:start", "rswitch", "renderer", NoProgram, 0,
                        RendererSceneName(rendererMode.currentProgram))
                   EXCEPT !.lnch = calls[s].lnch])
    ELSE ReplyEmitting(s, "scene:start", "renderer", <<Event("started", -1, <<>>)>>)

\* RendererMode.start: the switch has come back, whatever its outcome
RendererSwitchDoneOrThrow(s, ok) ==
  /\ calls[s].pc = "rswitch"
  /\ remote' = RemoteAfter("SetCurrentProgramScene", calls[s].name, ok)
  /\ IF RemoteOk("SetCurrentProgramScene", calls[s].name, ok)
       THEN ReplyEmitting(s, "scene:start", "renderer", <<Event("started", -1, <<>>)>>)
       ELSE Reply(s, "scene:start", "renderer", "obs request failed")
  /\ UNCHANGED <<supVars, last, displayIndex, main, rendererMode, sceneMode,
                 obsController>>
RendererSwitchDone(s, ok) ==
  /\ calls[s].pc = "rswitch"
  /\ remote' = RemoteAfter("SetCurrentProgramScene", calls[s].name, ok)
  /\ ReplyEmitting(s, "scene:start", "renderer", <<Event("started", -1, <<>>)>>)
  /\ UNCHANGED <<supVars, last, displayIndex, main, rendererMode, sceneMode,
                 obsController>>

\* RendererMode.stop up to its first await: lo.stop()
RendererModeStop(s) ==
  /\ Stop
  /\ CASE isRunning /\ StopOutcome = "delay" ->
            /\ Await(s, Call("scene:stop", "lostop", "renderer", NoProgram, 0, NoName))
            /\ UNCHANGED rendererMode
       [] isRunning /\ StopOutcome = "threw" ->
            /\ Reply(s, "scene:stop", "renderer", "kill of null")
            /\ UNCHANGED rendererMode
       [] OTHER ->
            /\ rendererMode' = [rendererMode EXCEPT !.currentSlideIndex = 0]
            /\ ReplyEmitting(s, "scene:stop", "renderer", <<Event("stopped", -1, <<>>)>>)
  /\ UNCHANGED sceneMode

\* RendererMode.stop once lo.stop() has come back from _delay
RendererModeStopped(s) ==
  /\ calls[s].pc = "lostop"
  /\ StopDelay
  /\ rendererMode' = [rendererMode EXCEPT !.currentSlideIndex = 0]
  /\ ReplyEmitting(s, "scene:stop", "renderer", <<Event("stopped", -1, <<>>)>>)
  /\ UNCHANGED <<displayIndex, main, sceneMode, obsController, remote>>

(* ------------------------ main.js: ipcMain handlers ------------------- *)

\* an ipcMain.handle invocation takes the first free slot
Free(s) == calls[s].cmd = "idle" /\ \A k \in Slots : k < s => calls[k].cmd # "idle"

\* if (program.mode === 'renderer') ... else if (program.mode === 'scene') ...
ModeForSwapped(prog) == IF Programs[prog].mode = "renderer" THEN "scene" ELSE "renderer"
ModeFor(prog) == Programs[prog].mode

\* ipcMain.handle('program:load') up to its first await
ProgramLoad(s, programId) ==
  /\ Free(s)
  /\ IF programId = ""
       THEN Reply(s, "program:load", "none", "Invalid program ID")
       ELSE Await(s, Call("program:load", "read", "none", programId, 0, NoName))
  /\ UNCHANGED <<supVars, last, displayIndex, main, rendererMode, sceneMode,
                 obsController, remote>>

\* the state of the coordinator and of both mode controllers in which no
\* program was ever loaded: currentMode and currentProgram null, each
\* controller as constructed
NothingLoaded ==
  /\ main = [currentMode |-> "null", currentProgram |-> NoProgram]
  /\ rendererMode.currentProgram = NoProgram /\ rendererMode.currentSlideIndex = 0
  /\ sceneMode.currentProgram = NoProgram /\ sceneMode.currentSceneIndex = -1
  /\ sceneMode.scenes = <<>>

\* 'program:load' invoked while no program is loaded
FirstProgramLoad(s, programId) ==
  /\ NothingLoaded
  /\ ProgramLoad(s, programId)

\* 'program:load' once pptProcessor.loadProgram has read the metadata
ProgramLoadReadStopping(s) ==
  LET prog == calls[s].prog IN
  /\ calls[s].cmd = "program:load" /\ calls[s].pc = "read"
  /\ IF prog \notin ProgramIds
       THEN /\ Reply(s, "program:load", "none", "Failed to load program")
            /\ UNCHANGED <<main, rendererMode, sceneMode>>
       ELSE /\ main' = [currentProgram |-> prog, currentMode |-> ModeFor(prog)]
            /\ CASE ModeFor(prog) = "renderer" ->
                      RendererModeLoad(s, prog) /\ UNCHANGED sceneMode
                 [] ModeFor(prog) = "scene" /\ obsController.connected ->
                      SceneModeLoad(s, prog) /\ UNCHANGED rendererMode
                 [] OTHER ->
                      /\ Reply(s, "program:load", "none", "")
                      /\ UNCHANGED <<rendererMode, sceneMode>>
  /\ isRunning' = FALSE
  /\ UNCHANGED <<proc, exitCode, process, currentFile, launchState, startTimers,
                 killTimers, stopDelays, stopTargets, erroredSince, racedStop>>
  /\ UNCHANGED <<last, displayIndex, obsController, remote>>
ProgramLoadRead(s) ==
  LET prog == calls[s].prog IN
  /\ calls[s].cmd = "program:load" /\ calls[s].pc = "read"
  /\ IF prog \notin ProgramIds
       THEN /\ Reply(s, "program:load", "none", "Failed to load program")
            /\ UNCHANGED <<main, rendererMode, sceneMode>>
       ELSE /\ main' = [currentProgram |-> prog, currentMode |-> ModeFor(prog)]
            /\ CASE ModeFor(prog) = "renderer" ->
                      RendererModeLoad(s, prog) /\ UNCHANGED sceneMode
                 [] ModeFor(prog) = "scene" /\ obsController.connected ->
                      SceneModeLoad(s, prog) /\ UNCHANGED rendererMode
                 [] OTHER ->
                      /\ Reply(s, "program:load", "none", "")
                      /\ UNCHANGED <<rendererMode, sceneMode>>
  /\ UNCHANGED <<supVars, last, displayIndex, obsController, remote>>

\* ipcMain.handle('scene:next')
IpcSceneNext(s) ==
  /\ Free(s)
  /\ CASE main.currentMode = "scene" -> SceneModeNext(s) /\ UNCHANGED rendererMode
       [] main.currentMode = "renderer" -> RendererModeNext(s) /\ UNCHANGED sceneMode
       [] OTHER -> /\ Reply(s, "scene:next", "none", "No program loaded")
                   /\ UNCHANGED <<rendererMode, sceneMode>>
  /\ UNCHANGED <<supVars, last, displayIndex, main, obsController, remote>>

\* ipcMain.handle('scene:prev')
IpcScenePrev(s) ==
  /\ Free(s)
  /\ CASE main.currentMode = "scene" -> SceneModePrev(s) /\ UNCHANGED rendererMode
       [] main.currentMode = "renderer" -> RendererModePrev(s) /\ UNCHANGED sceneMode
       [] OTHER -> /\ Reply(s, "scene:prev", "none", "No program loaded")
                   /\ UNCHANGED <<rendererMode, sceneMode>>
  /\ UNCHANGED <<supVars, last, displayIndex, main, obsController, remote>>

\* ipcMain.handle('scene:jump'): neither mode controller has a jumpToScene
\* method (SceneMode's is the private _jumpToScene), so the call never happens
IpcSceneJump(s, sceneIndex) ==
  /\ Free(s)
  /\ IF sceneIndex < 0
       THEN Await(s, [Envelope(s, "scene:jump", "none", "Invalid scene index")
                        EXCEPT !.idx = sceneIndex])
       ELSE Await(s, [Envelope(s, "scene:jump", "none",
                               "Jump not supported in current mode")
                        EXCEPT !.idx = sceneIndex])
  /\ UNCHANGED <<supVars, last, displayIndex, main, rendererMode, sceneMode,
                 obsController, remote>>

\* the options argument of 'scene:start': not an object, or { display }
StartOptions == {[valid |-> FALSE, display |-> 0], [valid |-> TRUE, display |-> 0]}

\* ipcMain.handle('scene:start')
IpcSceneStart(s, options) ==
  /\ Free(s)
  /\ CASE ~options.valid ->
            /\ Reply(s, "scene:start", "none", "Invalid options object")
            /\ UNCHANGED <<supVars, last, rendererMode, sceneMode>>
       [] options.valid /\ main.currentMode = "scene" ->
            SceneModeStart(s) /\ UNCHANGED <<supVars, last, rendererMode>>
       [] options.valid /\ main.currentMode = "renderer" ->
            RendererModeStart(s, options.display) /\ UNCHANGED <<rendererMode, sceneMode>>
       [] OTHER ->
            /\ Reply(s, "scene:start", "none", "No program loaded")
            /\ UNCHANGED <<supVars, last, rendererMode, sceneMode>>
  /\ UNCHANGED <<displayIndex, main, obsController, remote>>

\* ipcMain.handle('scene:stop')
IpcSceneStop(s) ==
  /\ Free(s)
  /\ CASE main.currentMode = "scene" ->
            SceneModeStop(s) /\ UNCHANGED <<supVars, last, rendererMode>>
       [] main.currentMode = "renderer" -> RendererModeStop(s) /\ UNCHANGED sceneMode
       [] OTHER -> /\ Reply(s, "scene:stop", "none", "")
                   /\ UNCHANGED <<supVars, last, rendererMode, sceneMode>>
  /\ UNCHANGED <<displayIndex, main, obsController, remote>>

\* ipcMain.handle('scene:current'): getStatus of the active mode controller
IpcSceneCurrent(s) ==
  /\ Free(s)
  /\ IF main.currentMode # "null"
       THEN Await(s, [Envelope(s, "scene:current", main.currentMode, "") EXCEPT
                        !.status = IF main.currentMode = "renderer"
                                     THEN RendererGetStatus ELSE SceneGetStatus])
       ELSE Reply(s, "scene:current", "none", "No mode active")
  /\ UNCHANGED <<supVars, last, displayIndex, main, rendererMode, sceneMode,
                 obsController, remote>>

\* ipcMain.handle('scene:blackout'): obsController.activateBlackout
IpcSceneBlackout(s) ==
  /\ Free(s)
  /\ IF ~obsController.connected
       THEN Reply(s, "scene:blackout", "obs", "Not connected to OBS")
       ELSE Await(s, Call("scene:blackout", "bswitch", "obs", NoProgram, 0,
                          BlackoutSceneName))
  /\ UNCHANGED <<supVars, last, displayIndex, main, rendererMode, sceneMode,
                 obsController, remote>>

\* activateBlackout: this.currentSceneIndex = -1, on the OBS controller
ActivateBlackoutResetsMode ==
  /\ sceneMode' = [sceneMode EXCEPT !.currentSceneIndex = -1]
  /\ UNCHANGED obsController
ActivateBlackoutResets ==
  /\ obsController' = [obsController EXCEPT !.currentSceneIndex = -1]
  /\ UNCHANGED sceneMode

\* activateBlackout once switchToScene has come back
BlackoutSwitchDone(s, ok) ==
  /\ calls[s].pc = "bswitch"
  /\ remote' = RemoteAfter("SetCurrentProgramScene", calls[s].name, ok)
  /\ IF RemoteOk("SetCurrentProgramScene", calls[s].name, ok)
       THEN /\ ActivateBlackoutResets
            /\ Reply(s, "scene:blackout", "obs", "")
       ELSE /\ UNCHANGED <<obsController, sceneMode>>
            /\ Reply(s, "scene:blackout", "obs", "obs request failed")
  /\ UNCHANGED <<supVars, last, displayIndex, main, rendererMode>>

\* ipcMain.handle('obs:connect') up to the await of obs.connect
ObsConnect(s, config) ==
  /\ Free(s)
  /\ IF config = "invalid"
       THEN Reply(s, "obs:connect", "obs", "Invalid configuration object")
       ELSE Await(s, Call("obs:connect", "ws", "obs", NoProgram, 0, BlackoutSceneName))
  /\ UNCHANGED <<supVars, last, displayIndex, main, rendererMode, sceneMode,
                 obsController, remote>>

\* OBSController.connect and ensureBlackoutScene, one await at a time; every
\* throw lands in the catch of connect(), which clears connected
ObsConnectStep(s, ok) ==
  LET c == calls[s]
      req == CASE c.pc = "bexists" -> "GetSceneItemList"
               [] c.pc = "bremove" -> "RemoveScene"
               [] c.pc = "bcreate" -> "CreateScene"
               [] OTHER -> "CreateInput"
      res == IF c.pc = "ws" THEN ok ELSE RemoteOk(req, c.name, ok)
      goto == CASE c.pc = "ws" -> IF res THEN "bexists" ELSE "throw"
                [] c.pc = "bexists" -> IF res THEN "return" ELSE "bremove"
                [] c.pc = "bremove" -> "bcreate"
                [] c.pc = "bcreate" -> IF res THEN "bcolor" ELSE "throw"
                [] OTHER -> "return"
  IN /\ c.cmd = "obs:connect"
     /\ remote' = IF c.pc = "ws" THEN remote ELSE RemoteAfter(req, c.name, ok)
     /\ obsController' =
          CASE c.pc = "ws" /\ res -> [obsController EXCEPT !.connected = TRUE, !.socket = TRUE]
            [] c.pc = "ws" /\ ~res -> [obsController EXCEPT !.connected = FALSE, !.socket = FALSE]
            [] goto = "throw" -> [obsController EXCEPT !.connected = FALSE]
            [] OTHER -> obsController
     /\ CASE goto = "throw" -> Reply(s, c.cmd, "obs", "Failed to connect to OBS")
          [] goto = "return" -> Reply(s, c.cmd, "obs", "")
          [] OTHER -> Await(s, [c EXCEPT !.pc = goto])
     /\ UNCHANGED <<supVars, last, displayIndex, main, rendererMode, sceneMode>>

\* ipcMain.handle('obs:disconnect') up to the await of obs.disconnect
ObsDisconnect(s) ==
  /\ Free(s)
  /\ IF obsController.connected
       THEN Await(s, Call("obs:disconnect", "wsclose", "obs", NoProgram, 0, NoName))
       ELSE Reply(s, "obs:disconnect", "obs", "")
  /\ UNCHANGED <<supVars, last, displayIndex, main, rendererMode, sceneMode,
                 obsController, remote>>

\* OBSController.disconnect once the websocket has closed
ObsDisconnected(s) ==
  /\ calls[s].pc = "wsclose"
  /\ obsController' = [obsController EXCEPT !.connected = FALSE, !.socket = FALSE]
  /\ Reply(s, "obs:disconnect", "obs", "")
  /\ UNCHANGED <<supVars, last, displayIndex, main, rendererMode, sceneMode, remote>>

\* obs.on('ConnectionClosed'): the session dropped
ConnectionClosed ==
  /\ obsController.socket
  /\ obsController' = [obsController EXCEPT !.connected = FALSE, !.socket = FALSE]
  /\ UNCHANGED <<supVars, last, displayIndex, main, rendererMode, sceneMode, remote, calls>>

\* ipcMain.handle('display:set')
DisplaySet(s, index) ==
  /\ Free(s)
  /\ IF index < 0
       THEN /\ Reply(s, "display:set", "none", "Invalid display index")
            /\ UNCHANGED displayIndex
       ELSE /\ displayIndex' = index
            /\ Reply(s, "display:set", "none", "")
  /\ UNCHANGED <<supVars, last, main, rendererMode, sceneMode, obsController, remote>>

\* ipcMain.handle('libreoffice:status') up to the await of checkAvailability
LibreofficeStatus(s) ==
  /\ Free(s)
  /\ Await(s, Call("libreoffice:status", "access", "none", NoProgram, 0, NoName))
  /\ UNCHANGED <<supVars, last, displayIndex, main, rendererMode, sceneMode,
                 obsController, remote>>

\* 'libreoffice:status' once checkAvailability has answered (it never throws)
LibreofficeStatusDone(s) ==
  /\ calls[s].pc = "access"
  /\ Reply(s, "libreoffice:status", "none", "")
  /\ UNCHANGED <<supVars, last, displayIndex, main, rendererMode, sceneMode,
                 obsController, remote>>

\* the envelope of slot s reaches the window: ipcRenderer.invoke resolves
IpcReturn(s) ==
  /\ calls[s].pc = "replied"
  /\ calls' = [calls EXCEPT ![s] = Idle]
  /\ UNCHANGED <<supVars, last, displayIndex, main, rendererMode, sceneMode,
                 obsController, remote>>

\* mainWindow.on('closed')
WindowClosed ==
  /\ main.currentMode # "null"
  /\ main' = [main EXCEPT !.currentMode = "null"]
  /\ UNCHANGED <<supVars, last, displayIndex, rendererMode, sceneMode, obsController,
                 remote, calls>>

(* -------------- the supervisor's callbacks under the coordinator ------- *)

\* an event of the supervisor that no handler is waiting for
Unawaited == UNCHANGED coordVars

\* launch() inside RendererMode.start: its stop() is back, or checkAvailability
\* has answered (rejecting the start, or spawning with options.display)
StartLaunchStopDelay(l) == LaunchStopDelay(l) /\ Unawaited

StartLaunchAvail(s, available, spawned) ==
  /\ calls[s].pc = "launch"
  /\ LaunchAvail(calls[s].lnch, available, spawned)
  /\ IF available
       THEN /\ displayIndex' = calls[s].idx
            /\ UNCHANGED calls
       ELSE /\ Reply(s, "scene:start", "renderer", "LibreOffice not found")
            /\ UNCHANGED displayIndex
  /\ UNCHANGED <<main, rendererMode, sceneMode, obsController, remote>>

\* the startup timer fires; a start() still awaiting that launch goes on
StartStartupTimer(l) ==
  /\ StartupTimer(l)
  /\ IF launchState[l] = "pending"
       THEN \E s \in Slots : /\ calls[s].pc = "launch" /\ calls[s].lnch = l
                             /\ RendererModeStarted(s)
       ELSE UNCHANGED calls
  /\ UNCHANGED <<displayIndex, main, rendererMode, sceneMode, obsController, remote>>

\* the spawn fails: the error is thrown out of the 'error' callback, and a
\* start() awaiting that launch stays suspended until the startup timer
StartProcError(l) == ProcError(l) /\ Unawaited

\* SceneMode._jumpToScene(sceneIndex), called on the controller itself
SceneModeJump(s, sceneIndex) ==
  /\ Free(s)
  /\ SceneJump(s, "_jumpToScene", sceneIndex)
  /\ UNCHANGED <<supVars, last, displayIndex, main, rendererMode, sceneMode,
                 obsController, remote>>

\* SceneMode.first() and last(), called on the controller itself
SceneFirst(s) ==
  /\ Free(s)
  /\ SceneModeFirst(s)
  /\ UNCHANGED <<supVars, last, displayIndex, main, obsController, remote>>

SceneLast(s) ==
  /\ Free(s)
  /\ SceneModeLast(s)
  /\ UNCHANGED <<supVars, last, displayIndex, main, obsController, remote>>

\* RendererMode.first(), last() and start(options), called on the controller
\* itself (no ipcMain handler calls first or last, and none calls start
\* before a program is loaded)
RendererFirst(s) ==
  /\ Free(s)
  /\ RendererModeFirst(s)
  /\ UNCHANGED <<supVars, last, displayIndex, main, obsController, remote>>

RendererLast(s) ==
  /\ Free(s)
  /\ RendererModeLast(s)
  /\ UNCHANGED <<supVars, last, displayIndex, main, obsController, remote>>

RendererStart(s, display) ==
  /\ Free(s)
  /\ RendererModeStart(s, display)
  /\ UNCHANGED <<displayIndex, main, rendererMode, sceneMode, obsController, remote>>

\* every command, one at a time; a start() on a running supervisor takes a
\* second launch(), which Spec and its stop() cover
Serial == {1}

CoordNext ==
  \/ \E s \in Serial, id \in {"R", "S", "", "missing"} : ProgramLoad(s, id)
  \/ \E s \in Serial : ProgramLoadRead(s)
  \/ \E s \in Serial, ok \in BOOLEAN : CreateScenesStep(s, ok)
  \/ \E s \in Serial, ok \in BOOLEAN : SetupOBSCaptureStep(s, ok)
  \/ \E s \in Serial : IpcSceneNext(s)
  \/ \E s \in Serial : IpcScenePrev(s)
  \/ \E s \in Serial, i \in {-1, 0, 1} : IpcSceneJump(s, i)
  \/ \E s \in Serial, o \in StartOptions : IpcSceneStart(s, o)
  \/ \E s \in Serial : IpcSceneStop(s)
  \/ \E s \in Serial : IpcSceneCurrent(s)
  \/ \E s \in Serial : IpcSceneBlackout(s)
  \/ \E s \in Serial, ok \in BOOLEAN : SwitchDone(s, ok)
  \/ \E s \in Serial, ok \in BOOLEAN : RendererSwitchDone(s, ok)
  \/ \E s \in Serial, ok \in BOOLEAN : BlackoutSwitchDone(s, ok)
  \/ \E s \in Serial, c \in {"valid", "invalid"} : ObsConnect(s, c)
  \/ \E s \in Serial, ok \in BOOLEAN : ObsConnectStep(s, ok)
  \/ \E s \in Serial : ObsDisconnect(s)
  \/ \E s \in Serial : ObsDisconnected(s)
  \/ ConnectionClosed
  \/ \E s \in Serial, i \in {-1, 1} : DisplaySet(s, i)
  \/ \E s \in Serial : IpcReturn(s)
  \/ \E s \in Serial : LibreofficeStatus(s)
  \/ \E s \in Serial : LibreofficeStatusDone(s)
  \/ WindowClosed
  \/ \E s \in Serial : RendererModeStopped(s)
  \/ \E s \in Serial, a \in BOOLEAN, sp \in BOOLEAN : StartLaunchAvail(s, a, sp)
  \/ \E l \in Pids : StartStartupTimer(l)
  \/ \E l \in Pids : StartProcError(l)
  \/ \E p \in Pids, c \in ExitCodes : ProcDies(p, c) /\ Unawaited
  \/ \E p \in Pids : ProcExit(p) /\ Unawaited
  \/ KillTimer /\ Unawaited

\* the scene-mode program only, with commands overlapping
SceneNext ==
  \/ \E s \in Slots, id \in {"S", "", "missing"} : ProgramLoad(s, id)
  \/ \E s \in Slots : ProgramLoadRead(s)
  \/ \E s \in Slots, ok \in BOOLEAN : CreateScenesStep(s, ok)
  \/ \E s \in Slots : IpcSceneNext(s)
  \/ \E s \in Slots : IpcScenePrev(s)
  \/ \E s \in Slots, i \in {-1, 0, 1} : IpcSceneJump(s, i)
  \/ \E s \in Slots, o \in StartOptions : IpcSceneStart(s, o)
  \/ \E s \in Slots : IpcSceneStop(s)
  \/ \E s \in Slots : IpcSceneCurrent(s)
  \/ \E s \in Slots : IpcSceneBlackout(s)
  \/ \E s \in Slots, ok \in BOOLEAN : SwitchDone(s, ok)
  \/ \E s \in Slots, ok \in BOOLEAN : BlackoutSwitchDone(s, ok)
  \/ \E s \in Slots, c \in {"valid", "invalid"} : ObsConnect(s, c)
  \/ \E s \in Slots, ok \in BOOLEAN : ObsConnectStep(s, ok)
  \/ \E s \in Slots : ObsDisconnect(s)
  \/ \E s \in Slots : ObsDisconnected(s)
  \/ \E s \in Slots : IpcReturn(s)
  \/ ConnectionClosed
  \/ WindowClosed

\* the indexes _jumpToScene is called with: below, inside and above the list
JumpIndexes == -1..MaxJumpIndex

\* the scene-mode programs, one command at a time, requests failing at will
SceneSerialNext ==
  \/ \E s \in Serial, id \in {"S", "V"} : ProgramLoad(s, id)
  \/ \E s \in Serial : ProgramLoadRead(s)
  \/ \E s \in Serial, ok \in BOOLEAN : CreateScenesStep(s, ok)
  \/ \E s \in Serial : IpcSceneNext(s)
  \/ \E s \in Serial : IpcScenePrev(s)
  \/ \E s \in Serial, i \in {-1, 0, 1} : IpcSceneJump(s, i)
  \/ \E s \in Serial, i \in JumpIndexes : SceneModeJump(s, i)
  \/ \E s \in Serial : IpcSceneStop(s)
  \/ \E s \in Serial, ok \in BOOLEAN : SwitchDone(s, ok)
  \/ \E s \in Serial, c \in {"valid", "invalid"} : ObsConnect(s, c)
  \/ \E s \in Serial, ok \in BOOLEAN : ObsConnectStep(s, ok)
  \/ \E s \in Serial : IpcReturn(s)
  \/ ConnectionClosed

\* the renderer-mode program and the supervisor, one command at a time
LiveRenderNext ==
  \/ \E s \in Serial : ProgramLoad(s, "R")
  \/ \E s \in Serial : ProgramLoadRead(s)
  \/ \E s \in Serial, ok \in BOOLEAN : SetupOBSCaptureStep(s, ok)
  \/ \E s \in Serial : IpcSceneNext(s)
  \/ \E s \in Serial : IpcScenePrev(s)
  \/ \E s \in Serial : RendererFirst(s)
  \/ \E s \in Serial : RendererLast(s)
  \/ \E s \in Serial, o \in StartOptions : IpcSceneStart(s, o)
  \/ \E s \in Serial : RendererStart(s, 0)
  \/ \E s \in Serial : IpcSceneStop(s)
  \/ \E s \in Serial : IpcSceneCurrent(s)
  \/ \E s \in Serial, ok \in BOOLEAN : RendererSwitchDone(s, ok)
  \/ \E s \in Serial : ObsConnect(s, "valid")
  \/ \E s \in Serial, ok \in BOOLEAN : ObsConnectStep(s, ok)
  \/ ConnectionClosed
  \/ \E s \in Serial : IpcReturn(s)
  \/ \E s \in Serial : RendererModeStopped(s)
  \/ \E s \in Serial, a \in BOOLEAN, sp \in BOOLEAN : StartLaunchAvail(s, a, sp)
  \/ \E l \in Pids : StartStartupTimer(l)
  \/ \E l \in Pids : StartProcError(l)
  \/ \E p \in Pids, c \in ExitCodes : ProcDies(p, c) /\ Unawaited
  \/ \E p \in Pids : ProcExit(p) /\ Unawaited
  \/ KillTimer /\ Unawaited

\* both mode controllers navigated while the session comes and goes, one
\* command at a time
SessionDropNext ==
  \/ \E s \in Serial, id \in {"R", "S"} : ProgramLoad(s, id)
  \/ \E s \in Serial : ProgramLoadRead(s)
  \/ \E s \in Serial, ok \in BOOLEAN : CreateScenesStep(s, ok)
  \/ \E s \in Serial, ok \in BOOLEAN : SetupOBSCaptureStep(s, ok)
  \/ \E s \in Serial : IpcSceneNext(s)
  \/ \E s \in Serial : IpcScenePrev(s)
  \/ \E s \in Serial, o \in StartOptions : IpcSceneStart(s, o)
  \/ \E s \in Serial : SceneFirst(s)
  \/ \E s \in Serial : SceneLast(s)
  \/ \E s \in Serial : RendererFirst(s)
  \/ \E s \in Serial : RendererLast(s)
  \/ \E s \in Serial, ok \in BOOLEAN : SwitchDone(s, ok)
  \/ \E s \in Serial, ok \in BOOLEAN : RendererSwitchDone(s, ok)
  \/ \E s \in Serial : ObsConnect(s, "valid")
  \/ \E s \in Serial, ok \in BOOLEAN : ObsConnectStep(s, ok)
  \/ ConnectionClosed
  \/ \E s \in Serial : IpcReturn(s)
  \/ \E s \in Serial, a \in BOOLEAN, sp \in BOOLEAN : StartLaunchAvail(s, a, sp)
  \/ \E l \in Pids : StartStartupTimer(l)
  \/ \E l \in Pids : StartProcError(l)

\* load-program commands issued only while nothing is loaded, requests
\* failing at will
FirstLoadNext ==
  \/ \E s \in Serial, id \in {"R", "S", "V", "", "missing"} : FirstProgramLoad(s, id)
  \/ \E s \in Serial : ProgramLoadRead(s)
  \/ \E s \in Serial, ok \in BOOLEAN : CreateScenesStep(s, ok)
  \/ \E s \in Serial, ok \in BOOLEAN : SetupOBSCaptureStep(s, ok)
  \/ \E s \in Serial : ObsConnect(s, "valid")
  \/ \E s \in Serial, ok \in BOOLEAN : ObsConnectStep(s, ok)
  \/ ConnectionClosed
  \/ \E s \in Serial : IpcReturn(s)

\* the scene-mode programs loaded again and again over one session, against a
\* remote service that fails only a create of an existing name, a removal of
\* a missing name and a request on a missing scene
ReloadNext ==
  \/ \E s \in Serial, id \in {"S", "V"} : ProgramLoad(s, id)
  \/ \E s \in Serial : ProgramLoadRead(s)
  \/ \E s \in Serial : CreateScenesStep(s, TRUE)
  \/ \E s \in Serial : IpcSceneNext(s)
  \/ \E s \in Serial : SwitchDone(s, TRUE)
  \/ \E s \in Serial : ObsConnect(s, "valid")
  \/ \E s \in Serial : ObsConnectStep(s, TRUE)
  \/ \E s \in Serial : IpcReturn(s)

\* nothing is pending: no call in flight, no timer armed, no event undelivered
Quiescent ==
  /\ startTimers = {} /\ killTimers = 0 /\ stopDelays = 0
  /\ \A l \in Pids : launchState[l] \in {"unused", "resolved", "rejected"}
  /\ \A p \in Pids : proc[p] \notin {"exiting", "spawnfail"}

Init == SupInit /\ CoordInit /\ last = Step("init", 0, "none", 0)

\* the supervisor on its own: launch() and stop() called directly
Next ==
  \/ \E l \in Pids : Launch(l) /\ UNCHANGED coordVars
  \/ \E l \in Pids : LaunchStopDelay(l) /\ UNCHANGED coordVars
  \/ \E l \in Pids, a \in BOOLEAN, s \in BOOLEAN :
        LaunchAvail(l, a, s) /\ UNCHANGED coordVars
  \/ \E l \in Pids : StartupTimer(l) /\ UNCHANGED coordVars
  \/ \E l \in Pids : ProcError(l) /\ UNCHANGED coordVars
  \/ \E p \in Pids, c \in ExitCodes : ProcDies(p, c) /\ UNCHANGED coordVars
  \/ \E p \in Pids : ProcExit(p) /\ UNCHANGED coordVars
  \/ Stop /\ UNCHANGED coordVars
  \/ StopDelay /\ UNCHANGED coordVars
  \/ KillTimer /\ UNCHANGED coordVars

Spec == Init /\ [][Next]_vars

\* the coordinator: commands arrive over IPC, the supervisor runs under it
CoordSpec == Init /\ [][CoordNext]_vars

\* the scene-mode controller under overlapping commands
SceneSpec == Init /\ [][SceneNext]_vars

\* the scene-mode controller, one command at a time
SceneSerialSpec == Init /\ [][SceneSerialNext]_vars

\* the renderer-mode controller over the supervisor
LiveRenderSpec == Init /\ [][LiveRenderNext]_vars

\* both mode controllers under a session that drops and comes back
SessionDropSpec == Init /\ [][SessionDropNext]_vars

\* the first program load of a run
FirstLoadSpec == Init /\ [][FirstLoadNext]_vars

\* the scene-mode controller reloading over a well-behaved remote service
ReloadSpec == Init /\ [][ReloadNext]_vars

(* ------------------------------ claims -------------------------------- *)

\* C1: at most one spawned renderer process is alive in every reachable state
C1_AtMostOneLiveProcess == Cardinality(Alive) <= 1

\* C2: after a stop() called during the startup of a launch(), once every call
\* has settled and every timer has fired, isRunning is false and no process lives
C2_StopDuringStartupLeavesNothing ==
  (racedStop /\ Quiescent) => (~isRunning /\ Alive = {})

\* C3: a process that was tracked when stop() was invoked on a running
\* supervisor has exited once every timer has fired and every call has settled
C3_StoppedProcessExits ==
  Quiescent => \A p \in stopTargets : proc[p] # "alive"

\* C4: stop() never throws; it changes nothing when isRunning is false, and
\* otherwise isRunning is false and currentFile is null when it returns
C4_StopNeverThrows ==
  [][/\ last'.op \in {"stop", "stopDelay", "launch", "launchStopDelay"}
        => last'.ev # "threw"
     /\ last'.op = "stop" /\ ~isRunning
        => last'.ev = "noop" /\ UNCHANGED loVars
     /\ last'.op = "stop" /\ isRunning
        => last'.ev \in {"delay", "returned"}
     /\ last'.op \in {"stop", "stopDelay", "launchStopDelay"} /\ last'.ev = "returned"
        => ~isRunning' /\ currentFile' = "null"]_vars

\* C4 witness: stop() ran its catch path (the exit key could not be sent
\* because the exit handler had cleared the handle) and returned
C4_Witness ==
  last.op = "stop" /\ last.ev = "returned" /\ process = NullProcess

\* C5: launch() resolves only once its startup timer has fired, and reports
\* 'started' only for a process that is alive at that moment
C5_StartedOnlyIfAlive ==
  /\ \A l \in Pids : launchState[l] = "resolved" => l \notin startTimers
  /\ last.op = "startupTimer" /\ last.ev = "started" => proc[last.pid] = "alive"

\* C6: after a process error and until the next launch() the supervisor is
\* not running; right after an exit event it is not running and 'stopped'
\* was emitted
C6_ErrorMarksNotRunning ==
  /\ erroredSince => ~isRunning
  /\ last.op = "exit" => ~isRunning /\ last.ev = "stopped"

\* C7: every command handler returns an envelope whose success is a boolean
\* and which carries an error message when success is false, and no failure
\* of a mode controller, of the supervisor or of the remote client goes
\* unmapped: a start whose spawned process reported an error does not return
\* success
C7_EveryFailureReachesTheEnvelope ==
  \A s \in Slots : calls[s].pc = "replied" =>
    /\ calls[s].success \in {"true", "false"}
    /\ calls[s].success = "false" <=> calls[s].error # ""
    /\ calls[s].cmd = "scene:start" /\ calls[s].lnch # NullProcess
          /\ proc[calls[s].lnch] = "errored"
       => calls[s].success = "false"

\* C8: the active mode controller, when there is one, is the variant of the
\* declared mode of the program loaded last; a start, stop, next or prev goes
\* to that controller, and no step of it changes the other controller
C8_OneActiveModeController ==
  [][/\ main'.currentMode # "null"
        => main'.currentMode = Programs[main'.currentProgram].mode
     /\ \A s \in Slots :
          LET began == calls[s].cmd = "idle" /\ calls'[s].cmd # "idle"
              resumed == calls[s].pc \notin {"", "replied"} /\ calls'[s] # calls[s]
              c == IF began THEN calls'[s] ELSE calls[s]
          IN (began \/ resumed)
               /\ c.cmd \in {"scene:start", "scene:stop", "scene:next", "scene:prev"}
             => /\ began => c.ctrl \in {"none", main.currentMode}
                /\ c.ctrl = "scene" => UNCHANGED <<rendererMode, loVars>>
                /\ c.ctrl = "renderer" => UNCHANGED sceneMode
                /\ c.ctrl = "none" => UNCHANGED <<rendererMode, sceneMode, loVars>>]_vars

\* C8 witness: both controllers hold a program, the scene-mode one is active,
\* and a next forwarded to it has come back
C8_Witness ==
  /\ main.currentMode = "scene" /\ sceneMode.currentProgram = "S"
  /\ rendererMode.currentProgram = "R" /\ sceneMode.currentSceneIndex = 1
  /\ \E s \in Slots : /\ calls[s].cmd = "scene:next" /\ calls[s].pc = "replied"
                       /\ calls[s].ctrl = "scene" /\ calls[s].success = "true"

\* C9: no two command handlers are in progress against the same mode
\* controller at the same time
C9_CommandsAreSerialized ==
  \A s, t \in Slots :
    /\ s # t
    /\ calls[s].pc \notin {"", "replied"} /\ calls[t].pc \notin {"", "replied"}
    /\ calls[s].ctrl \in {"scene", "renderer"}
    => calls[s].ctrl # calls[t].ctrl

\* C10: SceneMode.next() with a connected session and n > 0 scenes asks for
\* the scene at min(current + 1, n - 1), which is 0 from the sentinel -1 and
\* n - 1 from n - 1, and takes that position when the switch succeeds; with
\* no scene it fails with 'No scenes loaded' and changes nothing
C10_NextClampsAtLastScene ==
  [][\A s \in Slots :
       LET n == Len(sceneMode.scenes)
           cur == sceneMode.currentSceneIndex
       IN /\ calls[s].cmd = "idle" /\ calls'[s].cmd = "scene:next"
               /\ calls'[s].ctrl = "scene"
             => /\ n = 0 => /\ calls'[s].pc = "replied"
                            /\ calls'[s].error = "No scenes loaded"
                            /\ UNCHANGED sceneMode
                /\ n > 0 /\ obsController.connected
                     => /\ calls'[s].pc = "switch"
                        /\ calls'[s].idx = (IF cur + 1 <= n - 1 THEN cur + 1 ELSE n - 1)
                        /\ cur = -1 => calls'[s].idx = 0
                        /\ cur = n - 1 => calls'[s].idx = cur
                        /\ UNCHANGED sceneMode
          /\ calls[s].cmd = "scene:next" /\ calls[s].pc = "switch"
               /\ calls'[s].pc = "replied"
             => IF calls'[s].success = "true"
                  THEN sceneMode' = [sceneMode EXCEPT !.currentSceneIndex = calls[s].idx]
                  ELSE UNCHANGED sceneMode]_vars

\* C10 witness: a next() called at the last of two scenes is waiting for the
\* switch to that same scene
C10_Witness ==
  /\ Len(sceneMode.scenes) = 2 /\ sceneMode.currentSceneIndex = 1
  /\ \E s \in Slots : /\ calls[s].cmd = "scene:next" /\ calls[s].pc = "switch"
                       /\ calls[s].idx = 1

\* C11: in scene mode, prev() called at position 0 issues no request to the
\* remote service and leaves the position at 0
C11_PrevAtZeroIsNoOp ==
  [][\A s \in Slots :
       /\ calls[s].cmd = "idle" /\ calls'[s].cmd = "scene:prev"
       /\ calls'[s].ctrl = "scene"
       /\ Len(sceneMode.scenes) > 0 /\ sceneMode.currentSceneIndex = 0
       => /\ calls'[s].pc # "switch"
          /\ sceneMode'.currentSceneIndex = 0]_vars

\* C12: _jumpToScene(index) fails with "Not connected to OBS" when no session
\* is active and with "Invalid scene index" when index < 0 or index >= count;
\* in both cases, and when the switch request itself fails, the position is
\* unchanged and no 'scene-changed' is emitted; otherwise the scene requested
\* from the remote service is the one at that index, and on success the
\* position becomes index and 'scene-changed' is emitted once with that index
C12_JumpToScene ==
  [][\A s \in Slots :
       /\ (calls[s].cmd = "idle" /\ calls'[s].cmd = "_jumpToScene") =>
            LET i == calls'[s].idx
                n == Len(sceneMode.scenes)
            IN /\ UNCHANGED <<sceneMode, remote>>
               /\ calls'[s].emits = <<>>
               /\ ~obsController.connected =>
                    /\ calls'[s].pc = "replied"
                    /\ calls'[s].error = "Not connected to OBS"
               /\ obsController.connected /\ (i < 0 \/ i >= n) =>
                    /\ calls'[s].pc = "replied"
                    /\ calls'[s].error = "Invalid scene index"
               /\ obsController.connected /\ i >= 0 /\ i < n =>
                    /\ calls'[s].pc = "switch"
                    /\ calls'[s].name = sceneMode.scenes[i + 1].name
       /\ (calls[s].cmd = "_jumpToScene" /\ calls[s].pc = "switch"
             /\ calls'[s].pc = "replied") =>
            IF calls'[s].success = "true"
              THEN /\ calls[s].name \in remote.scenes
                   /\ sceneMode' = [sceneMode EXCEPT !.currentSceneIndex = calls[s].idx]
                   /\ calls'[s].emits = <<[name |-> "scene-changed",
                                           index |-> calls[s].idx, scenes |-> <<>>]>>
              ELSE /\ UNCHANGED sceneMode
                   /\ calls'[s].emits = <<>>
                   /\ calls'[s].error # ""]_vars

\* a direct _jumpToScene(1) from position 0 has succeeded
C12_Witness ==
  /\ sceneMode.currentSceneIndex = 1 /\ Len(sceneMode.scenes) = 2
  /\ \E s \in Slots : /\ calls[s].cmd = "_jumpToScene" /\ calls[s].pc = "replied"
                       /\ calls[s].success = "true"
                       /\ Len(calls[s].emits) = 1
                       /\ calls[s].emits[1].index = 1

\* C13: the jump command with an index in [0, n), given while a scene-mode
\* program of n scenes is loaded and a session is active, does not fail
C13_JumpCommandSucceeds ==
  [][\A s \in Slots :
       /\ calls[s].cmd = "idle" /\ calls'[s].cmd = "scene:jump"
       /\ main.currentMode = "scene" /\ obsController.connected
       /\ calls'[s].idx >= 0 /\ calls'[s].idx < Len(sceneMode.scenes)
       => calls'[s].success # "false"]_vars

\* C14: a scene-mode loadProgram that runs with an active session and returns
\* leaves exactly one scene record per act, in act order, record i having
\* actIndex i and the name <prefix><program id><infix><i + 1>; 'scenes-created'
\* is emitted once and carries exactly these records; the position is -1
C14_OneSceneRecordPerAct ==
  [][\A s \in Slots :
       /\ calls[s].cmd = "program:load" /\ calls[s].pc \in ScenePcs
       /\ calls'[s].pc = "replied" /\ calls'[s].success = "true"
       => LET prog == calls[s].prog
              n == Len(Programs[prog].acts)
              es == calls'[s].emits
          IN /\ sceneMode'.currentProgram = prog
             /\ Len(sceneMode'.scenes) = n
             /\ \A i \in 0..(n - 1) :
                  /\ sceneMode'.scenes[i + 1].actIndex = i
                  /\ sceneMode'.scenes[i + 1].name =
                       [kind |-> "SF_Act", prog |-> prog, n |-> i + 1]
             /\ sceneMode'.currentSceneIndex = -1
             /\ Cardinality({k \in 1..Len(es) : es[k].name = "scenes-created"}) = 1
             /\ \A k \in 1..Len(es) :
                  es[k].name = "scenes-created" => es[k].scenes = sceneMode'.scenes]_vars

\* the load of the program with a video act has returned its two records
C14_Witness ==
  /\ sceneMode.currentProgram = "V" /\ Len(sceneMode.scenes) = 2
  /\ sceneMode.scenes[2].actIndex = 1
  /\ \E s \in Slots : /\ calls[s].cmd = "program:load" /\ calls[s].pc = "replied"
                       /\ calls[s].success = "true"
                       /\ Len(calls[s].emits) = 2
                       /\ Len(calls[s].emits[1].scenes) = 2

\* C15: a load-program command for a scene-mode program given while no session
\* is active succeeds and records the program in the scene controller: when
\* the command returns, the controller's program is the one just loaded, its
\* scene list is empty and its position is -1
C15_LoadWithoutSessionRecordsProgram ==
  [][\A s \in Slots :
       /\ calls[s].cmd = "program:load" /\ calls[s].pc = "read"
       /\ calls[s].prog \in ProgramIds
       /\ Programs[calls[s].prog].mode = "scene"
       /\ ~obsController.connected
       /\ calls'[s].pc = "replied"
       => /\ calls'[s].success = "true"
          /\ sceneMode'.currentProgram = calls[s].prog
          /\ sceneMode'.scenes = <<>>
          /\ sceneMode'.currentSceneIndex = -1]_vars

\* C16: in a scene-mode loadProgram with a session, the failure of any request
\* awaited while an act is built, other than the pre-removal of a scene, fails
\* loadProgram at that act: the command returns the failure and goes on to no
\* later request or act
C16_RequestFailureAbortsLoad ==
  [][\A s \in Slots :
       /\ calls[s].cmd = "program:load"
       /\ calls[s].pc \in ScenePcs \ {"remove", "vremove"}
       /\ ~RemoteOk(LoadRequest(calls[s].pc),
                    LoadTarget(calls[s].pc, ActSceneName(calls[s].prog, calls[s].idx)),
                    TRUE)
       /\ calls'[s] # calls[s]
       => calls'[s].pc = "replied" /\ calls'[s].success = "false"]_vars

C18_BlackoutCreatedOnlyIfAbsent ==
  [][\A s \in Slots :
       /\ calls[s].cmd = "obs:connect"
       /\ calls[s].pc \in {"bexists", "bremove", "bcreate", "bcolor"}
       /\ BlackoutSceneName \in remote.scenes
       /\ calls'[s] # calls[s]
       => /\ calls'[s].pc \notin {"bremove", "bcreate", "bcolor"}
          /\ BlackoutSceneName \in remote'.scenes]_vars

\* C19: a failure to create the blackout scene during connect() is swallowed:
\* connect() still succeeds, the session is marked connected afterwards and
\* the connect command returns a success envelope
C19_BlackoutFailureSwallowed ==
  [][\A s \in Slots :
       /\ calls[s].cmd = "obs:connect" /\ calls[s].pc = "bcreate"
       /\ obsController.socket /\ obsController.connected
       /\ calls'[s].pc = "replied"
       => /\ calls'[s].success = "true"
          /\ obsController'.connected]_vars

\* C20: the blackout command leaves the mode controllers as they were (active
\* mode, loaded programs, scene list, scene position, slide position), so a
\* following next() starts from the old position; it fails with "Not connected
\* to OBS" when no session is connected, and otherwise, whether or not a
\* program is loaded, requests the blackout scene and succeeds unless that
\* request fails
C20_BlackoutKeepsPosition ==
  [][\A s \in Slots :
       /\ (calls[s].cmd = "idle" /\ calls'[s].cmd = "scene:blackout") =>
            /\ UNCHANGED <<main, sceneMode, rendererMode, remote>>
            /\ IF obsController.connected
                 THEN /\ calls'[s].pc = "bswitch"
                      /\ calls'[s].name =
                           [kind |-> "StageForge_Blackout", prog |-> "", n |-> 0]
                 ELSE /\ calls'[s].pc = "replied"
                      /\ calls'[s].error = "Not connected to OBS"
       /\ (calls[s].cmd = "scene:blackout" /\ calls[s].pc = "bswitch"
             /\ calls'[s] # calls[s]) =>
            /\ UNCHANGED <<main, sceneMode, rendererMode, remote>>
            /\ calls'[s].pc = "replied"
            /\ calls'[s].success = "true" => calls[s].name \in remote.scenes
            /\ calls'[s].success = "false" =>
                 calls'[s].error \notin {"", "Not connected to OBS", "No program loaded"}]_vars

\* blackout has succeeded while the scene controller stands at its first scene
C20_Witness ==
  /\ main.currentMode = "scene" /\ sceneMode.currentSceneIndex = 0
  /\ Len(sceneMode.scenes) = 2
  /\ obsController.currentSceneIndex = -1
  /\ \E s \in Slots : /\ calls[s].cmd = "scene:blackout" /\ calls[s].pc = "replied"
                       /\ calls[s].success = "true"

\* C21: in renderer mode, once a program is loaded, the position getStatus
\* reports as currentSlide is within [0, slideCount)
C21_SlidePositionInRange ==
  RendererGetStatus.programLoaded =>
    /\ RendererGetStatus.current >= 0
    /\ RendererGetStatus.current < RendererGetStatus.total

\* C22: in renderer mode, prev() at position 0 sends no key to the renderer,
\* emits no event, leaves the position at 0 and returns without an error,
\* whether or not the renderer process is running
C22_PrevAtFirstSlideDoesNothing ==
  [][\A s \in Slots :
       /\ calls[s].cmd = "idle" /\ calls'[s].cmd = "scene:prev"
       /\ calls'[s].ctrl = "renderer"
       /\ rendererMode.currentSlideIndex = 0
       => /\ calls'[s].pc = "replied"
          /\ calls'[s].success = "true"
          /\ calls'[s].key = ""
          /\ calls'[s].emits = <<>>
          /\ rendererMode'.currentSlideIndex = 0
          /\ UNCHANGED <<rendererMode, loVars, remote>>]_vars

\* prev() has returned at position 0 while the renderer runs
C22_Witness ==
  /\ isRunning /\ process # NullProcess /\ proc[process] = "alive"
  /\ rendererMode.currentSlideIndex = 0
  /\ \E s \in Slots : /\ calls[s].cmd = "scene:prev" /\ calls[s].pc = "replied"
                       /\ calls[s].ctrl = "renderer"
                       /\ calls[s].success = "true" /\ calls[s].key = ""

\* C23: in renderer mode with no session to the remote service, loadProgram
\* succeeds at once without any request to the remote service; a start() after
\* it fails only if the renderer executable is not available, otherwise it
\* spawns the renderer and, at the moment it returns, getStatus().running is
\* true
C23_StartWithoutSessionRuns ==
  [][\A s \in Slots :
       /\ (calls[s].cmd = "program:load" /\ calls[s].pc = "read"
             /\ calls[s].prog = "R" /\ ~obsController.connected
             /\ calls'[s] # calls[s]) =>
            /\ calls'[s].pc = "replied" /\ calls'[s].success = "true"
            /\ rendererMode'.currentProgram = "R"
            /\ UNCHANGED remote
       /\ (calls[s].cmd = "scene:start" /\ calls[s].pc = "launch"
             /\ ~obsController.connected /\ calls'[s].pc = "replied") =>
            IF calls'[s].success = "true"
              THEN /\ launchState'[calls[s].lnch] = "resolved"
                   /\ proc[calls[s].lnch] # "unborn"
                   /\ RendererGetStatus'.running
                   /\ UNCHANGED remote
              ELSE /\ calls'[s].error = "LibreOffice not found"
                   /\ launchState'[calls[s].lnch] = "rejected"]_vars

\* the scenario has run: loaded and started with no session, the renderer runs
C23_Witness ==
  /\ ~obsController.connected /\ remote.scenes = {}
  /\ rendererMode.currentProgram = "R"
  /\ isRunning /\ process # NullProcess /\ proc[process] = "alive"
  /\ \E s \in Slots : /\ calls[s].cmd = "scene:start" /\ calls[s].pc = "replied"
                       /\ calls[s].ctrl = "renderer" /\ calls[s].success = "true"
                       /\ calls[s].lnch = process

\* C24: no navigation command makes a nested video scene the active scene of
\* the remote service: every scene switch requested by start, next, prev or
\* _jumpToScene (first and last call it) names the scene of an act
C24_VideoNeverSwitchedTo ==
  \A s \in Slots :
    calls[s].pc \in {"switch", "rswitch", "bswitch"} =>
      /\ calls[s].name.kind # "SF_Act_Video1"
      /\ calls[s].pc = "switch" =>
           /\ calls[s].name.kind = "SF_Act"
           /\ calls[s].name.n = calls[s].idx + 1

\* a switch to the first act of the program with a video is awaited while the
\* video scene of that act exists in the remote service
C24_Witness ==
  /\ sceneMode.currentProgram = "V" /\ Len(sceneMode.scenes) = 2
  /\ sceneMode.scenes[1].videoSubscene \in remote.scenes
  /\ \E s \in Slots : /\ calls[s].pc = "switch" /\ calls[s].idx = 0
                       /\ calls[s].name = sceneMode.scenes[1].name

\* C25: getStatus() of either mode controller is pure: the command that calls
\* it returns in the same turn without awaiting anything, with no request to
\* the remote service and no operation on the renderer process, changes no
\* state, and its result is a function of the controller's fields alone, so
\* two calls in the same state return equal results
C25_GetStatusIsPure ==
  [][\A s \in Slots :
       (calls[s].cmd = "idle" /\ calls'[s].cmd = "scene:current") =>
         /\ calls'[s].pc = "replied"
         /\ UNCHANGED <<supVars, last, displayIndex, main, rendererMode, sceneMode,
                        obsController, remote>>
         /\ main.currentMode = "null" => calls'[s].success = "false"
         /\ main.currentMode = "renderer" =>
              /\ calls'[s].success = "true"
              /\ calls'[s].status =
                   [mode |-> "renderer",
                    programLoaded |-> rendererMode.currentProgram # "",
                    running |-> isRunning,
                    current |-> rendererMode.currentSlideIndex,
                    total |-> IF rendererMode.currentProgram # ""
                                THEN Programs[rendererMode.currentProgram].slideCount
                                ELSE 0,
                    scenes |-> <<>>]
         /\ main.currentMode = "scene" =>
              /\ calls'[s].success = "true"
              /\ calls'[s].status =
                   [mode |-> "scene",
                    programLoaded |-> sceneMode.currentProgram # "",
                    running |-> FALSE,
                    current |-> sceneMode.currentSceneIndex,
                    total |-> Len(sceneMode.scenes),
                    scenes |-> sceneMode.scenes]]_vars

\* the status of the renderer controller was returned while the renderer ran
\* and stood at its second slide
C25_Witness ==
  \E s \in Slots : /\ calls[s].cmd = "scene:current" /\ calls[s].pc = "replied"
                    /\ calls[s].status.mode = "renderer"
                    /\ calls[s].status.running
                    /\ calls[s].status.current = 1
                    /\ calls[s].status.total = 2

\* C26: the forced-kill timer of a stop() is never cancelled, and when it
\* fires it sends the kill signal to whatever process the handle holds at that
\* moment; so an execution exists (the witness) in which it fires after a
\* later launch() has spawned a new process into the handle and kills that
\* process, which no stop() was ever aimed at
C26_KillTimerHitsTrackedProcess ==
  [][/\ killTimers' < killTimers => last'.op = "killTimer"
     /\ (killTimers' < killTimers /\ process # NullProcess
           /\ proc[process] = "alive") =>
          /\ proc'[process] = "exiting"
          /\ last'.pid = process]_vars

\* the timer has just killed a process that was spawned after the stop() that
\* armed it: the process was tracked by no stop(), had not ended by itself,
\* and its launch() was still starting or had resolved
C26_Witness ==
  /\ last.op = "killTimer" /\ last.pid # NullProcess
  /\ last.pid \notin stopTargets
  /\ stopTargets # {}
  /\ proc[last.pid] = "exiting" /\ exitCode[last.pid] = NullCode
  /\ launchState[last.pid] \in {"pending", "resolved"}

\* C27: in every reachable state of the scene controller, also with commands
\* overlapping, the position is -1 or a valid index into the current scene
\* list: 0 <= currentScene < totalScenes
C27_ScenePositionValid ==
  \/ SceneGetStatus.current = -1
  \/ /\ SceneGetStatus.current >= 0
     /\ SceneGetStatus.current < SceneGetStatus.total

\* C28: a scene-mode loadProgram that runs with a session and succeeds emits
\* 'program-loaded' first and 'scenes-created' after it, each exactly once; a
\* failed one emits neither
C28_ProgramLoadedBeforeScenesCreated ==
  [][\A s \in Slots :
       /\ calls[s].cmd = "program:load" /\ calls[s].pc \in ScenePcs
       /\ calls'[s].pc = "replied"
       => LET es == calls'[s].emits
              loaded == {k \in 1..Len(es) : es[k].name = "program-loaded"}
              created == {k \in 1..Len(es) : es[k].name = "scenes-created"}
          IN IF calls'[s].success = "true"
               THEN /\ Cardinality(loaded) = 1 /\ Cardinality(created) = 1
                    /\ \A k \in loaded, m \in created : k < m
               ELSE loaded = {} /\ created = {}]_vars

\* C29: in renderer mode each of next(), first(), last() and prev() at a
\* position > 0 sends its key to the renderer and, the key sent, updates the
\* position (next: +1, prev: -1, first: 0, last: slideCount - 1) and emits
\* 'slide-changed' once with the new position, after the supervisor's
\* 'key-sent'; if the renderer is not running (sendKey refuses) the command
\* fails with "LibreOffice is not running", the position is unchanged and
\* neither 'slide-changed' nor 'key-sent' is emitted
C29_KeyThenPosition ==
  [][\A s \in Slots :
       /\ calls[s].cmd = "idle"
       /\ calls'[s].cmd \in {"scene:next", "scene:prev", "first", "last"}
       /\ calls'[s].ctrl = "renderer"
       /\ calls'[s].cmd = "scene:prev" => rendererMode.currentSlideIndex > 0
       /\ calls'[s].cmd = "last" => rendererMode.currentProgram # ""
       => LET cmd == calls'[s].cmd
              cur == rendererMode.currentSlideIndex
              key == CASE cmd = "scene:next" -> "next"
                       [] cmd = "scene:prev" -> "prev"
                       [] cmd = "first" -> "first"
                       [] OTHER -> "last"
              target == CASE cmd = "scene:next" -> cur + 1
                          [] cmd = "scene:prev" -> cur - 1
                          [] cmd = "first" -> 0
                          [] OTHER -> Programs[rendererMode.currentProgram].slideCount - 1
          IN /\ calls'[s].pc = "replied"
             /\ UNCHANGED <<loVars, remote, sceneMode>>
             /\ IF isRunning /\ process # NullProcess
                  THEN /\ calls'[s].success = "true"
                       /\ calls'[s].key = key
                       /\ rendererMode' = [rendererMode EXCEPT !.currentSlideIndex = target]
                       /\ calls'[s].emits =
                            <<[name |-> "lo:key-sent", index |-> -1, scenes |-> <<>>],
                              [name |-> "lo:slide-changed", index |-> -1, scenes |-> <<>>],
                              [name |-> "slide-changed", index |-> target, scenes |-> <<>>]>>
                  ELSE /\ calls'[s].success = "false"
                       /\ calls'[s].error = "LibreOffice is not running"
                       /\ calls'[s].key = ""
                       /\ calls'[s].emits = <<>>
                       /\ UNCHANGED rendererMode]_vars

\* last() has moved a running renderer from the first slide to slideCount - 1
C29_Witness ==
  /\ isRunning /\ process # NullProcess
  /\ rendererMode.currentSlideIndex = Programs["R"].slideCount - 1
  /\ \E s \in Slots : /\ calls[s].cmd = "last" /\ calls[s].pc = "replied"
                       /\ calls[s].success = "true" /\ calls[s].key = "last"
                       /\ Len(calls[s].emits) = 3
                       /\ calls[s].emits[3].index = 1

\* C30: renderer-mode start() fails with "No program loaded" and launches
\* nothing when no program is loaded; when the launch fails because the
\* renderer is unavailable, start() fails and 'started' is not emitted; once
\* the launch has succeeded start() returns normally and emits 'started'
\* exactly once, whether it made no switch request, or the request succeeded,
\* or the request failed
C30_StartSwallowsSwitchFailure ==
  [][\A s \in Slots :
       /\ (calls[s].cmd = "idle" /\ calls'[s].cmd = "scene:start"
             /\ calls'[s].ctrl = "renderer" /\ rendererMode.currentProgram = "") =>
            /\ calls'[s].pc = "replied"
            /\ calls'[s].error = "No program loaded"
            /\ calls'[s].emits = <<>>
            /\ UNCHANGED <<loVars, remote, rendererMode>>
       /\ (calls[s].cmd = "scene:start" /\ calls[s].pc = "launch"
             /\ calls'[s].pc = "replied") =>
            IF launchState'[calls[s].lnch] = "resolved"
              THEN /\ calls'[s].success = "true"
                   /\ calls'[s].emits = <<[name |-> "started", index |-> -1,
                                           scenes |-> <<>>]>>
              ELSE /\ calls'[s].success = "false"
                   /\ calls'[s].error = "LibreOffice not found"
                   /\ calls'[s].emits = <<>>
                   /\ proc[calls[s].lnch] = "unborn"
       /\ (calls[s].cmd = "scene:start" /\ calls[s].pc = "launch"
             /\ calls'[s].pc = "rswitch") =>
            /\ launchState'[calls[s].lnch] = "resolved"
            /\ calls'[s].emits = <<>>
       /\ (calls[s].cmd = "scene:start" /\ calls[s].pc = "rswitch"
             /\ calls'[s] # calls[s]) =>
            /\ calls'[s].pc = "replied"
            /\ calls'[s].success = "true"
            /\ calls'[s].emits = <<[name |-> "started", index |-> -1, scenes |-> <<>>]>>
            /\ UNCHANGED <<loVars, rendererMode>>]_vars

\* start() has returned normally although its switch request failed: the
\* session is connected, the capture scene does not exist in the remote service
C30_Witness ==
  /\ obsController.connected /\ rendererMode.sceneFactory
  /\ rendererMode.currentProgram = "R"
  /\ [kind |-> "SF_Renderer", prog |-> "R", n |-> 0] \notin remote.scenes
  /\ \E s \in Slots : /\ calls[s].cmd = "scene:start" /\ calls[s].pc = "replied"
                       /\ calls[s].success = "true"
                       /\ Len(calls[s].emits) = 1
                       /\ calls[s].lnch # NullProcess

C32_RemovalOnlyInReplaceCreate ==
  [][remote.scenes \ remote'.scenes # {} =>
       \E s \in Slots :
         /\ calls[s].cmd = "program:load"
         /\ calls[s].pc \in {"remove", "vremove", "cremove"}
         /\ calls'[s].cmd = "program:load"
         /\ calls'[s].pc \in {"create", "vcreate", "ccreate"}
         /\ \E n \in remote.scenes :
              /\ remote'.scenes = remote.scenes \ {n}
              /\ n.prog = calls[s].prog
              /\ n = IF calls[s].pc = "cremove" THEN calls[s].name
                     ELSE LoadTarget(calls[s].pc,
                                     ActSceneName(calls[s].prog, calls[s].idx))]_vars

\* C33: no step of a load-program command touches the supervisor or the
\* renderer process: the tracked handle, the running flag, the file, the
\* processes and every pending timer are the same after each step of the
\* command, for a program of either mode, so a process that ran before the
\* command is ended during it only by its own exit or a stop made earlier
C33_LoadLeavesRendererProcess ==
  [][\A s \in Slots :
       /\ calls[s].cmd = "program:load" \/ calls'[s].cmd = "program:load"
       /\ calls'[s] # calls[s]
       => UNCHANGED <<proc, exitCode, process, isRunning, currentFile, launchState,
                      startTimers, killTimers, stopDelays>>]_vars

\* a scene-mode program has been loaded over a running renderer: the command
\* has returned and the process that ran before is still tracked and alive
C33_Witness ==
  /\ isRunning /\ process # NullProcess /\ proc[process] = "alive"
  /\ rendererMode.currentProgram = "R"
  /\ main.currentMode = "scene" /\ main.currentProgram = "S"
  /\ \E s \in Slots : /\ calls[s].cmd = "program:load" /\ calls[s].pc = "replied"
                       /\ calls[s].success = "true"

\* C34: with a non-empty scene list, start, next, prev, first and last of
\* SceneMode called without a session fail with 'Not connected to OBS', emit
\* nothing and leave the position, the list and the remote scenes unchanged;
\* called with a session they go on to request the switch to a scene of the
\* same list (no reload); a change of the session state leaves both mode
\* controllers unchanged; next, prev, first and last of RendererMode return an
\* outcome fixed by the supervisor and the slide position alone, the same with
\* and without a session, and touch neither the session nor the remote scenes
C34_SessionDropDisablesSceneNavigationOnly ==
  [][\A s \in Slots :
       /\ (calls[s].cmd = "idle" /\ calls'[s].ctrl = "scene"
             /\ calls'[s].cmd \in {"scene:start", "scene:next", "scene:prev",
                                   "first", "last"}
             /\ Len(sceneMode.scenes) > 0) =>
            /\ UNCHANGED <<sceneMode, remote>>
            /\ IF ~obsController.connected
                 THEN /\ calls'[s].pc = "replied" /\ calls'[s].success = "false"
                      /\ calls'[s].error = "Not connected to OBS"
                      /\ calls'[s].emits = <<>>
                 ELSE /\ calls'[s].pc = "switch"
                      /\ calls'[s].idx \in 0..(Len(sceneMode.scenes) - 1)
                      /\ calls'[s].name = sceneMode.scenes[calls'[s].idx + 1].name
       /\ (calls[s].cmd = "idle" /\ calls'[s].ctrl = "renderer"
             /\ calls'[s].cmd \in {"scene:next", "scene:prev", "first", "last"}) =>
            LET cmd == calls'[s].cmd
                cur == rendererMode.currentSlideIndex
                sends == ~(cmd = "scene:prev" /\ cur = 0)
                target == CASE cmd = "scene:next" -> cur + 1
                            [] cmd = "scene:prev" -> Max(cur - 1, 0)
                            [] cmd = "first" -> 0
                            [] OTHER -> IF rendererMode.currentProgram # NoProgram
                                          THEN Programs[rendererMode.currentProgram].slideCount - 1
                                          ELSE cur
            IN /\ calls'[s].pc = "replied"
               /\ UNCHANGED <<remote, obsController, sceneMode>>
               /\ IF sends /\ SendKeyThrows
                    THEN /\ calls'[s].success = "false"
                         /\ calls'[s].error = "LibreOffice is not running"
                         /\ UNCHANGED rendererMode
                    ELSE /\ calls'[s].success = "true"
                         /\ (calls'[s].key # "") = sends
                         /\ rendererMode' = [rendererMode EXCEPT !.currentSlideIndex = target]
       /\ obsController'.connected # obsController.connected =>
            UNCHANGED <<sceneMode, rendererMode, remote>>]_vars

\* the session dropped after a navigation: a scene-mode navigation command has
\* failed with 'Not connected to OBS' at a position inside a non-empty list
C34_Witness ==
  /\ ~obsController.connected
  /\ Len(sceneMode.scenes) > 0
  /\ sceneMode.currentSceneIndex >= 0
  /\ \E s \in Slots : /\ calls[s].pc = "replied" /\ calls[s].ctrl = "scene"
                       /\ calls[s].cmd \in {"scene:start", "scene:next", "scene:prev",
                                            "first", "last"}
                       /\ calls[s].error = "Not connected to OBS"

\* C35: in every reachable state of the supervisor, isRunning true implies
\* that a process handle is tracked
C35_RunningImpliesHandle == isRunning => process # NullProcess

\* C36: the 'exit' event of an older process, delivered after launch() has
\* spawned a newer one that is tracked and alive, leaves the supervisor's
\* tracking as it was: the handle still names the newer process and isRunning
\* keeps its value
C36_OldExitKeepsNewTracking ==
  [][\A p \in Pids :
       (proc[p] = "exiting" /\ proc'[p] = "exited"
          /\ process # NullProcess /\ p < process /\ proc[process] = "alive") =>
         /\ process' = process
         /\ isRunning' = isRunning]_vars

\* C37: a load-program command that returns a failure envelope has changed
\* nothing; for a command issued while no program is loaded: when it has
\* returned a failure, the coordinator still has no active mode controller
\* and no current program, and each mode controller still has no program, its
\* initial position and an empty scene list
C37_FailedLoadChangesNothing ==
  \A s \in Slots :
    (calls[s].cmd = "program:load" /\ calls[s].pc = "replied"
       /\ calls[s].success = "false") => NothingLoaded

\* C38: whenever no loadProgram of the scene-mode controller is in progress,
\* its scene list is empty or complete: one record per act of the loaded
\* program, record i carrying actIndex i
C38_SceneListEmptyOrComplete ==
  (\A s \in Slots : ~(calls[s].cmd = "program:load" /\ calls[s].pc \in ScenePcs)) =>
    \/ Len(sceneMode.scenes) = 0
    \/ /\ sceneMode.currentProgram # NoProgram
       /\ Len(sceneMode.scenes) = Len(Programs[sceneMode.currentProgram].acts)
       /\ \A i \in 1..Len(sceneMode.scenes) : sceneMode.scenes[i].actIndex = i - 1

\* C39: when two load-program commands for scene-mode programs have overlapped
\* and both have returned success, the scene list is exactly the list built
\* from the program loaded last: one record per act, in act order, no record
\* twice and none of another program
C39_OverlappingLoadsLeaveLastProgram ==
  (\A s \in Slots : /\ calls[s].cmd = "program:load" /\ calls[s].pc = "replied"
                     /\ calls[s].ctrl = "scene" /\ calls[s].success = "true") =>
    /\ sceneMode.currentProgram # NoProgram
    /\ sceneMode.scenes =
         [i \in 1..Len(Programs[sceneMode.currentProgram].acts) |->
            SceneData(sceneMode.currentProgram, i - 1)]

\* C40: the scene position follows the remote output: a switch request that
\* succeeds makes the scene it names the active scene of the remote service,
\* so after every successful switch made by scene navigation or by blackout
\* the scene position is either -1 or the index of the record that carries
\* the name just switched to; after a switch to the blackout scene, which no
\* record carries, it is -1
C40_PositionTracksActiveContainer ==
  [][\A s \in Slots :
       (calls[s].pc \in {"switch", "bswitch"} /\ calls'[s].pc = "replied"
          /\ calls'[s].success = "true") =>
         \/ sceneMode'.currentSceneIndex = -1
         \/ /\ sceneMode'.currentSceneIndex < Len(sceneMode'.scenes)
            /\ sceneMode'.scenes[sceneMode'.currentSceneIndex + 1].name = calls[s].name]_vars

====
